---- MODULE Spec2Model ----
(***************************************************************************)
(* TeamSnap integration: the tool-adapter server (teamsnap_mcp/server.py), *)
(* the asynchronous client's item extractor and the requests of both       *)
(* clients (teamsnap_mcp/client.py, teamsnap_client.py), the token         *)
(* validity check and the authorization flow (teamsnap_auth.py), and the   *)
(* API monitor's snapshot differ, snapshot files and runs (monitor_api.py).*)
(*                                                                         *)
(* Text values (environment values, tool arguments, field names) are       *)
(* sequences of one-character strings, so that str.lower() and Python's    *)
(* truth value of a text are computed, not assumed.                        *)
(*                                                                         *)
(* Each component has its own specification over the same variables; the   *)
(* variables of the other components rest at their idle values.            *)
(***************************************************************************)
EXTENDS Integers, Sequences, FiniteSets, TLC

VARIABLES
    readonly_env,   \* os.environ["TEAMSNAP_READONLY"], or None when unset
    ro_out,         \* is_readonly(): whether it returned, and what
    token_env,      \* os.environ["TEAMSNAP_ACCESS_TOKEN"], or None when unset
    inv,            \* the tool invocations of the server, one record per slot
    pools,          \* the connection pool of each TeamSnapAsyncClient alive
    req,            \* one request of a client: where it is, how it ended
    item,           \* a Collection+JSON item handed to extract_item_data
    extracted,      \* extract_item_data(): whether it returned, and the dict
    config,         \* config['teamsnap']: the credential held in memory
    now,            \* datetime.now(), in seconds
    valid_out,      \* is_token_valid(): whether it returned, and what
    auth,           \* the call of authenticate(): where it is, what it did
    config_file,    \* the [teamsnap] section of the configuration file
    old_state,      \* the snapshot passed as old_state to compare_states
    new_state,      \* the snapshot passed as new_state to compare_states
    changes,        \* compare_states(): whether it returned, and the dict
    snapshot_files, \* the files of the snapshots directory
    run_out,        \* what the last run of main, or save_snapshot call, did
    avail_response, \* the JSON answer get_event_availability works on
    avail_out,      \* get_event_availability: what it returned or raised
    procs,          \* the TeamSnapAuth object of each process sharing a file
    writes,         \* the processes that wrote the file, in order
    aclient,        \* a TeamSnapAsyncClient: its construction and fields
    acall,          \* the last call of a method of that client
    sclient         \* a TeamSnapClient: its construction and fields

vars == << readonly_env, ro_out, token_env, inv, pools, req, item, extracted,
           config, now, valid_out, auth, config_file,
           old_state, new_state, changes, snapshot_files, run_out,
           avail_response, avail_out, procs, writes, aclient, acall,
           sclient >>

\* Python's None where a text is expected (an unset environment variable, an
\* absent dict key): a value no text over single characters equals.
None == << "None" >>

----------------------------------------------------------------------------
(* Text *)

\* str.lower() on one character (ASCII letters; anything else is kept).
LowerChar(c) ==
    CASE c = "A" -> "a" [] c = "B" -> "b" [] c = "C" -> "c" [] c = "D" -> "d"
      [] c = "E" -> "e" [] c = "F" -> "f" [] c = "G" -> "g" [] c = "H" -> "h"
      [] c = "I" -> "i" [] c = "J" -> "j" [] c = "K" -> "k" [] c = "L" -> "l"
      [] c = "M" -> "m" [] c = "N" -> "n" [] c = "O" -> "o" [] c = "P" -> "p"
      [] c = "Q" -> "q" [] c = "R" -> "r" [] c = "S" -> "s" [] c = "T" -> "t"
      [] c = "U" -> "u" [] c = "V" -> "v" [] c = "W" -> "w" [] c = "X" -> "x"
      [] c = "Y" -> "y" [] c = "Z" -> "z" [] OTHER -> c

\* str.lower()
Lower(s) == [i \in DOMAIN s |-> LowerChar(s[i])]

\* All texts of length at most n over the characters cs.
TextsUpTo(cs, n) == UNION { [1..k -> cs] : k \in 0..n }

----------------------------------------------------------------------------
(* server.py: the read-only switch *)

\* The longest TEAMSNAP_READONLY value the model draws.
MaxEnvLen == 4

\* The characters TEAMSNAP_READONLY values are drawn from: the letters of
\* true, yes, on in both cases where it matters, the digit 1 and a blank.
EnvChars == {"t", "T", "r", "u", "e", "E", "y", "s", "o", "n", "N", "1", " "}

\* The values of the tuple ('true', '1', 'yes', 'on').
ReadonlyWords == { <<"t","r","u","e">>, <<"1">>, <<"y","e","s">>, <<"o","n">> }

\* os.getenv(name, default)
getenv(value, default) == IF value = None THEN default ELSE value

\* is_readonly without the .lower() call.
is_readonly_nolower(env) == getenv(env, <<"t","r","u","e">>) \in ReadonlyWords

\* is_readonly()
is_readonly(env) == Lower(getenv(env, <<"t","r","u","e">>)) \in ReadonlyWords

----------------------------------------------------------------------------
(* client.py: the Collection+JSON item extractor *)

\* The longest "data" array the model draws.
MaxFields == 3

\* The names a field descriptor may carry: no "name" key at all (None), the
\* empty text, and two proper names.
FieldNames == { None, << >>, <<"i","d">>, <<"n">> }

\* The values a field descriptor may carry; "null" is Python's None, which
\* field.get("value") also gives for a descriptor without a "value" key.
FieldValues == { "null", "v1", "v2" }

FieldDescriptors == [name : FieldNames, value : FieldValues]

\* An item: has_data tells whether it holds a "data" key.
Items ==
    { [has_data |-> FALSE, data |-> << >>] } \cup
    [has_data : {TRUE},
     data : UNION { [1..k -> FieldDescriptors] : k \in 0..MaxFields }]

NoItem == [has_data |-> FALSE, data |-> << >>]

NotExtracted == [returned |-> FALSE, value |-> << >>]

\* Python's truth value of a name: None and the empty text are false.
Truthy(name) == name # None /\ name # << >>

\* result[name] = value on a dict: the key is added or its value replaced.
DictSet(d, k, v) == [x \in (DOMAIN d) \cup {k} |-> IF x = k THEN v ELSE d[x]]

\* A dict assignment that keeps the value of a key already present.
DictSetFirst(d, k, v) == IF k \in DOMAIN d THEN d ELSE DictSet(d, k, v)

\* The loop body of extract_item_data with the test "name is not None".
extract_field_notnone(result, field) ==
    IF field.name # None THEN DictSet(result, field.name, field.value)
    ELSE result

\* The loop body of extract_item_data keeping the first value of a name.
extract_field_first(result, field) ==
    IF Truthy(field.name) THEN DictSetFirst(result, field.name, field.value)
    ELSE result

\* The loop body of extract_item_data: name = field.get("name"),
\* value = field.get("value"), if name: result[name] = value.
extract_field(result, field) ==
    IF Truthy(field.name) THEN DictSet(result, field.name, field.value)
    ELSE result

RECURSIVE extract_loop(_, _, _)
\* for field in data_array, from the i-th field on.
extract_loop(data_array, i, result) ==
    IF i > Len(data_array) THEN result
    ELSE extract_loop(data_array, i + 1, extract_field(result, data_array[i]))

\* extract_item_data(item): item.get("data", []) folded into a dict.
extract_item_data(it) ==
    extract_loop(IF it.has_data THEN it.data ELSE << >>, 1, << >>)

----------------------------------------------------------------------------
(* teamsnap_auth.py: the stored credential and its validity *)

\* The latest instant of the model's clock.
MaxTime == 3

Instants == 0..MaxTime

\* config['teamsnap'].get('access_token'): no such key, an empty value, or
\* a token.
AccessTokens == { None, << >>, <<"t","o","k">> }

\* config['teamsnap'].get('token_expires_at'), by what the code can tell
\* apart: no such key ("absent"), an empty value ("empty"), a text that
\* datetime.fromisoformat rejects ("unparseable"), an ISO timestamp without
\* UTC offset ("naive", what exchange_code_for_token writes) and one with an
\* offset ("aware"); t is the instant a timestamp denotes.
Expiries ==
    [kind : {"absent", "empty", "unparseable"}, t : {0}] \cup
    [kind : {"naive", "aware"}, t : Instants]

Configs == [access_token : AccessTokens, token_expires_at : Expiries]

NoConfig == [access_token |-> None,
             token_expires_at |-> [kind |-> "absent", t |-> 0]]

NotCalled == [returned |-> FALSE, value |-> FALSE]

\* get_access_token()
get_access_token(cfg) == cfg.access_token

\* datetime.now() < expires_at: "TypeError" when expires_at carries a UTC
\* offset (now() does not), else the comparison.
NowBefore(t_now, expires_at) ==
    IF expires_at.kind = "aware" THEN "TypeError"
    ELSE IF t_now < expires_at.t THEN "True" ELSE "False"

\* is_token_valid with the comparison turned around.
is_token_valid_flipped(cfg, t_now) ==
    LET token == get_access_token(cfg)
        expires_at_str == cfg.token_expires_at
    IN  IF ~Truthy(token) THEN FALSE
        ELSE IF expires_at_str.kind \in {"absent", "empty"} THEN TRUE
        ELSE IF expires_at_str.kind = "unparseable" THEN TRUE
        ELSE IF NowBefore(t_now, expires_at_str) = "TypeError" THEN TRUE
        ELSE t_now > expires_at_str.t

\* is_token_valid(): False without a token; True without an expiry; True
\* when parsing or comparing raises (the bare except); else now < expiry.
is_token_valid(cfg, t_now) ==
    LET token == get_access_token(cfg)
        expires_at_str == cfg.token_expires_at
    IN  IF ~Truthy(token) THEN FALSE
        ELSE IF expires_at_str.kind \in {"absent", "empty"} THEN TRUE
        ELSE IF expires_at_str.kind = "unparseable" THEN TRUE
        ELSE IF NowBefore(t_now, expires_at_str) = "TypeError" THEN TRUE
        ELSE NowBefore(t_now, expires_at_str) = "True"

\* The longest text typed at the "Enter the authorization code" prompt.
MaxCodeLen == 2

\* The longest lifetime, in seconds, the token endpoint reports.
MaxLifetime == 2

\* expires_in when the token response carries none.
DefaultLifetime == 7200

\* The texts typed at the prompt: blanks and letters.
CodeInputs == TextsUpTo({" ", "c"}, MaxCodeLen)

RECURSIVE LStrip(_)
\* str.lstrip()
LStrip(s) ==
    IF s # << >> /\ Head(s) = " " THEN LStrip(Tail(s)) ELSE s

RECURSIVE RStrip(_)
\* str.rstrip()
RStrip(s) ==
    IF s # << >> /\ s[Len(s)] = " " THEN RStrip(SubSeq(s, 1, Len(s) - 1))
    ELSE s

\* str.strip()
Strip(s) == RStrip(LStrip(s))

\* config['teamsnap'].get('refresh_token')
RefreshTokens == { None, <<"r","e","f">> }

\* The [teamsnap] section as the constructor reads it from the file: the
\* credential of an earlier exchange, or none.
StoredCredentials ==
    [access_token : AccessTokens,
     refresh_token : RefreshTokens,
     token_expires_at : [kind : {"absent"}, t : {0}] \cup
                        [kind : {"naive"}, t : Instants]]

\* The keys of a token response exchange_code_for_token reads.
TokenKeys == {"access_token", "refresh_token", "expires_in"}

\* The JSON bodies of a 200 answer: any of the three keys may be missing.
TokenDatas ==
    { [k \in K |-> full[k]] :
        K \in SUBSET TokenKeys,
        full \in [access_token : { << >>, <<"n","e","w">> },
                  refresh_token : { <<"r","2">> },
                  expires_in : 0..MaxLifetime] }

\* What requests.post(TOKEN_URL) can give: no answer (it raises), or an
\* answer with a status and a body that holds a JSON object or does not.
TokenResponses ==
    [answered : {FALSE}, status : {0}, json : {FALSE}, token_data : {<< >>}]
    \cup [answered : {TRUE}, status : {201, 400}, json : {FALSE},
          token_data : {<< >>}]
    \cup [answered : {TRUE}, status : {200}, json : {FALSE},
          token_data : {<< >>}]
    \cup [answered : {TRUE}, status : {200}, json : {TRUE},
          token_data : TokenDatas]

NoResponse ==
    [answered |-> FALSE, status |-> 0, json |-> FALSE, token_data |-> << >>]

\* dict.get(key, default)
DictGet(d, key, default) == IF key \in DOMAIN d THEN d[key] ELSE default

\* The form exchange_code_for_token posts, with a refresh-token grant when
\* a refresh token is stored.
token_request_refresh(cfg, authorization_code) ==
    IF Truthy(cfg.refresh_token)
        THEN [grant_type |-> "refresh_token", code |-> cfg.refresh_token]
        ELSE [grant_type |-> "authorization_code", code |-> authorization_code]

\* The form exchange_code_for_token posts to the token endpoint.
token_request(cfg, authorization_code) ==
    [grant_type |-> "authorization_code", code |-> authorization_code]

\* The expiry without the time of the exchange added.
token_expiry_lifetime_only(token_data, t_now) ==
    [kind |-> "naive",
     t |-> DictGet(token_data, "expires_in", DefaultLifetime)]

\* expires_at.isoformat(), expires_at being datetime.now() plus expires_in
\* seconds: a timestamp without UTC offset.
token_expiry(token_data, t_now) ==
    LET expires_in == DictGet(token_data, "expires_in", DefaultLifetime)
    IN  [kind |-> "naive", t |-> t_now + expires_in]

\* An exchange that forgets the stored credential when it fails.
exchange_code_for_token_forgets(cfg, response, t_now) ==
    IF ~response.answered \/ response.status # 200 \/ ~response.json
        THEN [raised |-> TRUE, written |-> TRUE,
              config |-> [cfg EXCEPT !.access_token = << >>]]
    ELSE [raised |-> FALSE, written |-> TRUE,
          config |->
            [access_token |-> DictGet(response.token_data, "access_token", << >>),
             refresh_token |-> DictGet(response.token_data, "refresh_token", << >>),
             token_expires_at |-> token_expiry(response.token_data, t_now)]]

\* exchange_code_for_token, from the answer of the token endpoint on:
\* whether it raised, the [teamsnap] section in memory afterwards, and
\* whether the section was written to the configuration file.
exchange_code_for_token(cfg, response, t_now) ==
    IF ~response.answered \/ response.status # 200 \/ ~response.json
        THEN [raised |-> TRUE, config |-> cfg, written |-> FALSE]
    ELSE [raised |-> FALSE, written |-> TRUE,
          config |->
            [access_token |-> DictGet(response.token_data, "access_token", << >>),
             refresh_token |-> DictGet(response.token_data, "refresh_token", << >>),
             token_expires_at |-> token_expiry(response.token_data, t_now)]]

\* authenticate(), to its input(): the authorization URL is built and shown
\* and the browser is asked to open it, whatever is stored.
authenticate_begin(cfg, t_now) ==
    [pc |-> "prompt", browser |-> TRUE, raw |-> None, code |-> None,
     requests |-> << >>, response |-> NoResponse, exchanged |-> FALSE,
     exchanged_at |-> 0, result |-> "none"]

\* authenticate() without the test of the code.
authenticate_code_unchecked(a, cfg, typed) ==
    [a EXCEPT !.pc = "exchanging", !.raw = typed, !.code = Strip(typed),
              !.requests = << token_request(cfg, Strip(typed)) >>]

\* authenticate(), from the text typed at the prompt to the token request:
\* an empty code, after strip(), raises before anything is sent.
authenticate_code(a, cfg, typed) ==
    LET authorization_code == Strip(typed)
    IN  IF authorization_code = << >>
            THEN [a EXCEPT !.pc = "raised", !.raw = typed,
                           !.code = authorization_code,
                           !.result = "no_code"]
        ELSE [a EXCEPT !.pc = "exchanging", !.raw = typed,
                       !.code = authorization_code,
                       !.requests = << token_request(cfg, authorization_code) >>]

\* authenticate(), after exchange_code_for_token: it returns
\* token_data['access_token'], a KeyError when the answer has no such key.
authenticate_end(a, response, t_now, exchange) ==
    LET b == [a EXCEPT !.response = response]
    IN  IF exchange.raised
            THEN [b EXCEPT !.pc = "raised", !.result = "exchange_failed"]
        ELSE IF "access_token" \notin DOMAIN response.token_data
            THEN [b EXCEPT !.pc = "raised", !.result = "KeyError",
                           !.exchanged = TRUE, !.exchanged_at = t_now]
        ELSE [b EXCEPT !.pc = "returned", !.result = "access_token",
                       !.exchanged = TRUE, !.exchanged_at = t_now]

\* No call of authenticate() yet.
NoAuthenticate ==
    [pc |-> "idle", browser |-> FALSE, raw |-> None, code |-> None,
     requests |-> << >>, response |-> NoResponse, exchanged |-> FALSE,
     exchanged_at |-> 0, result |-> "none"]


----------------------------------------------------------------------------
(* teamsnap_auth.py: several processes on one configuration file *)

\* The most processes that share the configuration file.
MaxProcs == 2

\* The most token exchanges one process completes.
MaxExchanges == 1

Procs == 1..MaxProcs

\* A process that has not constructed its TeamSnapAuth.
NoProc ==
    [pc |-> "none",
     config |-> [access_token |-> None, refresh_token |-> None,
                 token_expires_at |-> [kind |-> "absent", t |-> 0]],
     exchanges |-> 0]

\* What the configuration file holds before any of the processes starts.
SharedCredentials ==
    [access_token : { None, <<"t","o","k">> },
     refresh_token : { None },
     token_expires_at : { [kind |-> "absent", t |-> 0],
                          [kind |-> "naive", t |-> 1] }]

\* The answers of the token endpoint to process p: the endpoint issues
\* every process tokens of its own.
ProcResponses(p) ==
    { NoResponse, [NoResponse EXCEPT !.answered = TRUE, !.status = 400] } \cup
    [answered : {TRUE}, status : {200}, json : {TRUE},
     token_data :
        { [access_token |-> <<"t", ToString(p)>>,
           refresh_token |-> <<"r", ToString(p)>>, expires_in |-> 1],
          [access_token |-> <<"t", ToString(p)>>] }]

\* __init__: self.config.read(config_file) copies the file into memory.
auth_init(file) == [pc |-> "ready", config |-> file, exchanges |-> 0]

\* A write that puts only the new access token in the file.
write_config_token_only(file, cfg) ==
    [file EXCEPT !.access_token = cfg.access_token]

\* with open(self.config_file, 'w') as f: self.config.write(f): the file is
\* replaced by the section held in memory.
write_config(file, cfg) == cfg

----------------------------------------------------------------------------
(* monitor_api.py: snapshots of the API root and their comparison *)

\* The longest "links" list of an API root the model draws.
MaxLinks == 2

\* The relation names a link may carry.
Rels == {"teams", "events", "members"}

\* collection.get("version")
Versions == {"3.866.0", "3.867.0"}

\* A link of the API root, as get_current_api_state keeps it: its rel and
\* link.get("deprecated", False).
Links == [rel : Rels, deprecated : BOOLEAN]

\* The API roots the model draws: a version and a list of links.
Roots == [version : Versions,
          links : UNION { [1..k -> Links] : k \in 0..MaxLinks }]

RECURSIVE DeprecatedLinks(_)
\* [link for link in endpoints["links"] if link["deprecated"]]
DeprecatedLinks(links) ==
    IF links = << >> THEN << >>
    ELSE (IF Head(links).deprecated THEN << Head(links) >> ELSE << >>)
             \o DeprecatedLinks(Tail(links))

\* get_current_api_state(client), for the root the client returns: the
\* fields compare_states reads (version, the links, the deprecated links and
\* their count).
get_current_api_state(root) ==
    LET deprecated_endpoints == DeprecatedLinks(root.links)
    IN  [version |-> root.version,
         links |-> root.links,
         deprecated_count |-> Len(deprecated_endpoints),
         deprecated_endpoints |-> deprecated_endpoints]

Snapshots == { get_current_api_state(r) : r \in Roots }

\* {link["rel"] for link in links}
RelSet(links) == { links[i].rel : i \in 1..Len(links) }

NoChanges ==
    [version_changed |-> FALSE, new_endpoints |-> {}, removed_endpoints |-> {},
     new_deprecations |-> {}, deprecated_count_changed |-> FALSE]

NotCompared == [returned |-> FALSE, value |-> NoChanges]

\* compare_states with removed_endpoints computed as new_rels - old_rels.
compare_states_removed_swapped(old, new) ==
    LET old_rels == RelSet(old.links)
        new_rels == RelSet(new.links)
        old_deprecated == RelSet(old.deprecated_endpoints)
        new_deprecated == RelSet(new.deprecated_endpoints)
    IN  [version_changed |-> old.version # new.version,
         new_endpoints |-> new_rels \ old_rels,
         removed_endpoints |-> new_rels \ old_rels,
         new_deprecations |-> new_deprecated \ old_deprecated,
         deprecated_count_changed |->
             old.deprecated_count # new.deprecated_count]

\* compare_states reporting every deprecated relation of the new snapshot.
compare_states_all_deprecated(old, new) ==
    LET old_rels == RelSet(old.links)
        new_rels == RelSet(new.links)
        new_deprecated == RelSet(new.deprecated_endpoints)
    IN  [version_changed |-> old.version # new.version,
         new_endpoints |-> new_rels \ old_rels,
         removed_endpoints |-> old_rels \ new_rels,
         new_deprecations |-> new_deprecated,
         deprecated_count_changed |->
             old.deprecated_count # new.deprecated_count]

\* compare_states(old_state, new_state); the three lists are built from
\* sets, in no specified order, and are kept as sets.
compare_states(old, new) ==
    LET old_rels == RelSet(old.links)
        new_rels == RelSet(new.links)
        old_deprecated == RelSet(old.deprecated_endpoints)
        new_deprecated == RelSet(new.deprecated_endpoints)
    IN  [version_changed |-> old.version # new.version,
         new_endpoints |-> new_rels \ old_rels,
         removed_endpoints |-> old_rels \ new_rels,
         new_deprecations |-> new_deprecated \ old_deprecated,
         deprecated_count_changed |->
             old.deprecated_count # new.deprecated_count]

\* print_comparison(changes): the has_changes it returns.
print_comparison(ch) ==
    \/ ch.version_changed
    \/ ch.new_endpoints # {}
    \/ ch.removed_endpoints # {}
    \/ ch.new_deprecations # {}
    \/ (ch.deprecated_count_changed /\ ch.new_deprecations = {})


----------------------------------------------------------------------------
(* monitor_api.py: the snapshot files and a run of main *)

\* The number of runs and save_snapshot calls the model follows.
MaxRuns == 3

\* LATEST_SNAPSHOT
LATEST_SNAPSHOT == << "latest", 0 >>

\* SNAPSHOTS_DIR / f"snapshot_{timestamp}.json", the timestamp being the
\* clock reading to the second.
snapshot_name(t_now) == << "snapshot", t_now >>

\* A file name passed to save_snapshot by its caller.
GivenName == << "given", 0 >>

\* The files the snapshots directory can hold.
SnapshotNames ==
    {LATEST_SNAPSHOT, GivenName} \cup { snapshot_name(t) : t \in Instants }

\* A file that does not exist.
NoFile ==
    [exists |-> FALSE, timestamp |-> 0, run |-> 0,
     api |-> get_current_api_state([version |-> "3.866.0", links |-> << >>])]

\* The API roots the runs are drawn to fetch.
RunRoots ==
    { [version |-> "3.866.0",
       links |-> << [rel |-> "teams", deprecated |-> FALSE],
                    [rel |-> "events", deprecated |-> TRUE] >>],
      [version |-> "3.867.0",
       links |-> << [rel |-> "teams", deprecated |-> FALSE],
                    [rel |-> "members", deprecated |-> FALSE] >>] }

\* What TeamSnapClient() and get_current_api_state can give a run: an
\* exception, or the state of an API root.
Fetches ==
    [ok : {FALSE}, root : { [version |-> "3.866.0", links |-> << >>] }] \cup
    [ok : {TRUE}, root : RunRoots]

\* The state dict of a run: get_current_api_state's result with its
\* "timestamp"; run tells the states of different runs apart, as the
\* microseconds of the timestamp do.
RunState(root, t_now, n) ==
    [exists |-> TRUE, timestamp |-> t_now, run |-> n,
     api |-> get_current_api_state(root)]

\* The combinations of --save, --compare, --show-deprecations.
Flags == [save : BOOLEAN, compare : BOOLEAN, show_deprecations : BOOLEAN]

\* save_snapshot(state, filename): the named file, or the file named by
\* the clock, is written, then latest.json.
save_snapshot(files, state, filename, t_now) ==
    LET name == IF filename = None THEN snapshot_name(t_now) ELSE filename
        written == [files EXCEPT ![name] = state]
    IN  [written EXCEPT ![LATEST_SNAPSHOT] = state]

\* load_snapshot(): None (NoFile) when latest.json does not exist.
load_snapshot(files) == files[LATEST_SNAPSHOT]

\* What a run did, before it did anything.
NoRun ==
    [kind |-> "none", run |-> 0,
     flags |-> [save |-> FALSE, compare |-> FALSE, show_deprecations |-> FALSE],
     exit_code |-> 0, current |-> NoFile, saved |-> FALSE, printed |-> FALSE,
     listed |-> FALSE, none_found |-> FALSE, compared |-> FALSE,
     previous |-> NoFile, changes |-> NoChanges]

\* main() saving the state only on --save.
main_save_on_request(files, out, flags, fetch, t_now) ==
    LET n == out.run + 1
        current_state == RunState(fetch.root, t_now, n)
        begun == [NoRun EXCEPT !.kind = "main", !.run = n, !.flags = flags]
        previous_state == load_snapshot(files)
    IN  IF ~fetch.ok
            THEN [files |-> files, out |-> [begun EXCEPT !.exit_code = 1]]
        ELSE IF flags.save
            THEN [files |-> save_snapshot(files, current_state, None, t_now),
                  out |-> [begun EXCEPT !.current = current_state,
                                        !.saved = TRUE]]
        ELSE [files |-> files,
              out |-> [begun EXCEPT
                !.current = current_state, !.printed = TRUE,
                !.listed = flags.show_deprecations,
                !.none_found = flags.compare /\ ~previous_state.exists,
                !.compared = flags.compare /\ previous_state.exists,
                !.previous = IF flags.compare THEN previous_state ELSE NoFile,
                !.changes = IF flags.compare /\ previous_state.exists
                            THEN compare_states(previous_state.api,
                                                current_state.api)
                            ELSE NoChanges]]

\* main() saving the current state before it loads latest.json.
main_save_first(files, out, flags, fetch, t_now) ==
    LET n == out.run + 1
        current_state == RunState(fetch.root, t_now, n)
        begun == [NoRun EXCEPT !.kind = "main", !.run = n, !.flags = flags]
        saved_files == save_snapshot(files, current_state, None, t_now)
        previous_state == load_snapshot(saved_files)
    IN  IF ~fetch.ok
            THEN [files |-> files, out |-> [begun EXCEPT !.exit_code = 1]]
        ELSE [files |-> saved_files,
              out |-> [begun EXCEPT
                !.current = current_state, !.saved = TRUE,
                !.printed = ~flags.save,
                !.listed = ~flags.save /\ flags.show_deprecations,
                !.compared = ~flags.save /\ flags.compare,
                !.previous = IF ~flags.save /\ flags.compare
                             THEN previous_state ELSE NoFile,
                !.changes = IF ~flags.save /\ flags.compare
                            THEN compare_states(previous_state.api,
                                                current_state.api)
                            ELSE NoChanges]]

\* main() going on after the --save branch instead of returning.
main_save_continues(files, out, flags, fetch, t_now) ==
    LET n == out.run + 1
        current_state == RunState(fetch.root, t_now, n)
        begun == [NoRun EXCEPT !.kind = "main", !.run = n, !.flags = flags]
        first == IF flags.save
                 THEN save_snapshot(files, current_state, None, t_now)
                 ELSE files
        previous_state == load_snapshot(first)
    IN  IF ~fetch.ok
            THEN [files |-> files, out |-> [begun EXCEPT !.exit_code = 1]]
        ELSE [files |-> save_snapshot(first, current_state, None, t_now),
              out |-> [begun EXCEPT
                !.current = current_state, !.saved = TRUE, !.printed = TRUE,
                !.listed = flags.show_deprecations,
                !.none_found = flags.compare /\ ~previous_state.exists,
                !.compared = flags.compare /\ previous_state.exists,
                !.previous = IF flags.compare THEN previous_state ELSE NoFile,
                !.changes = IF flags.compare /\ previous_state.exists
                            THEN compare_states(previous_state.api,
                                                current_state.api)
                            ELSE NoChanges]]

\* main(): the files afterwards and what the run did. An exception of the
\* client or of the fetch ends the run with exit code 1; --save saves and
\* returns; else the state is printed, the deprecations are listed on
\* --show-deprecations, latest.json is loaded and compared on --compare, and
\* the state is saved.
main(files, out, flags, fetch, t_now) ==
    LET n == out.run + 1
        current_state == RunState(fetch.root, t_now, n)
        begun == [NoRun EXCEPT !.kind = "main", !.run = n, !.flags = flags]
        previous_state == load_snapshot(files)
    IN  IF ~fetch.ok
            THEN [files |-> files, out |-> [begun EXCEPT !.exit_code = 1]]
        ELSE IF flags.save
            THEN [files |-> save_snapshot(files, current_state, None, t_now),
                  out |-> [begun EXCEPT !.current = current_state,
                                        !.saved = TRUE]]
        ELSE [files |-> save_snapshot(files, current_state, None, t_now),
              out |-> [begun EXCEPT
                !.current = current_state, !.saved = TRUE, !.printed = TRUE,
                !.listed = flags.show_deprecations,
                !.none_found = flags.compare /\ ~previous_state.exists,
                !.compared = flags.compare /\ previous_state.exists,
                !.previous = IF flags.compare THEN previous_state ELSE NoFile,
                !.changes = IF flags.compare /\ previous_state.exists
                            THEN compare_states(previous_state.api,
                                                current_state.api)
                            ELSE NoChanges]]

----------------------------------------------------------------------------
(* teamsnap_client.py and teamsnap_mcp/client.py: one request *)

\* The synchronous client (requests) and the asynchronous one (httpx).
ClientKinds == {"sync", "async"}

\* The request methods of a client; only the asynchronous one has patch.
Verbs(kind) ==
    {"get", "post", "put", "delete"} \cup
    (IF kind = "async" THEN {"patch"} ELSE {})

\* The statuses the API is drawn to answer with.
HttpStatuses == {200, 204, 300, 404, 500}

\* What the body of an answer holds: a JSON document, nothing, or a text
\* that is no JSON.
Bodies == {"json", "empty", "text"}

\* What session.request / client.request can give: no answer (it raises), or
\* an answer with a status and a body.
Answers ==
    [answered : {FALSE}, status : {0}, body : {"empty"}] \cup
    [answered : {TRUE}, status : HttpStatuses, body : Bodies]

NoAnswer == [answered |-> FALSE, status |-> 0, body |-> "empty"]

\* response.raise_for_status(): requests raises HTTPError for a status from
\* 400 to 599; httpx raises HTTPStatusError for every status outside 2xx.
raise_for_status(kind, status) ==
    IF kind = "sync" THEN status >= 400 /\ status < 600
    ELSE ~(status >= 200 /\ status <= 299)

\* response.json(), and for delete "response.json() if response.text else {}".
response_json(verb, body) ==
    IF body = "json" THEN [raised |-> FALSE, value |-> "json"]
    ELSE IF verb = "delete" /\ body = "empty"
        THEN [raised |-> FALSE, value |-> "empty_dict"]
    ELSE [raised |-> TRUE, value |-> "JSONDecodeError"]

\* A request not made.
NoRequest ==
    [pc |-> "idle", kind |-> "none", verb |-> "none", sent |-> 0,
     answer |-> NoAnswer, raised |-> FALSE, value |-> "none"]

\* get/post/put/patch/delete to the point where _request has sent the
\* request.
client_call(kind, verb) ==
    [NoRequest EXCEPT !.pc = "sent", !.kind = kind, !.verb = verb, !.sent = 1]

\* _request and its caller from the answer on: an exception of the
\* transport passes through, raise_for_status raises and the except clause
\* re-raises, else the caller returns the parsed body.
client_answer(r, answer) ==
    LET ended == [r EXCEPT !.pc = "ended", !.answer = answer]
    IN  IF ~answer.answered
            THEN [ended EXCEPT !.raised = TRUE, !.value = "transport_error"]
        ELSE IF raise_for_status(r.kind, answer.status)
            THEN [ended EXCEPT !.raised = TRUE, !.value = "HTTPError"]
        ELSE [ended EXCEPT
                !.raised = response_json(r.verb, answer.body).raised,
                !.value = response_json(r.verb, answer.body).value]

----------------------------------------------------------------------------
(* server.py: the tools *)

\* The number of tool invocations that may be in progress at once.
MaxInv == 2

Slots == 1..MaxInv

\* The tools under "READ TOOLS".
ReadTools ==
    { "list_teams", "get_team_details", "list_events", "get_event_details",
      "list_members", "get_event_availability", "list_assignments",
      "list_locations" }

\* The tools under "WRITE TOOLS".
WriteTools ==
    { "create_event", "update_event", "delete_event", "create_member",
      "update_member", "delete_member", "update_availability",
      "create_assignment", "delete_assignment", "create_location",
      "delete_location" }

Tools == ReadTools \cup WriteTools

\* The write tools whose body starts with readonly_error = check_readonly().
ChecksReadonly(tool) ==
    tool \in { "create_event", "update_event", "delete_event", "create_member",
               "update_member", "delete_member", "create_assignment",
               "delete_assignment", "create_location", "delete_location" }

\* The tools whose body, inside "async with get_client() as client", is a
\* try with "except Exception as e" returning a text.
CatchesExceptions(tool) == tool \in WriteTools

\* The client method a tool awaits.
ClientOp(tool) ==
    CASE tool = "list_teams" -> "search_teams"
      [] tool = "get_team_details" -> "get_team"
      [] tool = "list_events" -> "search_events"
      [] tool = "get_event_details" -> "get_event"
      [] tool = "list_members" -> "search_members"
      [] tool = "get_event_availability" -> "search_availabilities"
      [] tool = "list_assignments" -> "search_assignments"
      [] tool = "list_locations" -> "search_locations"
      [] OTHER -> tool

\* The HTTP verb of the request that client method sends.
HttpMethod(tool) ==
    CASE tool \in ReadTools -> "GET"
      [] tool \in { "create_event", "create_member", "create_assignment",
                    "create_location" } -> "POST"
      [] tool \in { "update_event", "update_member",
                    "update_availability" } -> "PATCH"
      [] OTHER -> "DELETE"

\* valid_statuses of update_availability.
ValidStatuses ==
    { <<"y","e","s">>, <<"n","o">>, <<"m","a","y","b","e">>,
      <<"u","n","k","n","o","w","n">> }

\* The status arguments the model draws for update_availability.
StatusArgs ==
    { <<"y","e","s">>, <<"M","a","y","b","e">>, <<"U","N","K","N","O","W","N">>,
      <<"n","o"," ">>, <<"o","k">>, << >> }

\* The optional fields of update_event / update_member given a value other
\* than None, as a set of their names.
FieldArgs == { {}, {"name"}, {"name", "notes"} }

\* The arguments of a tool that decide its control flow.
ArgsOf(tool) ==
    IF tool = "update_availability"
        THEN [status : StatusArgs, fields : {{}}]
    ELSE IF tool \in {"update_event", "update_member"}
        THEN [status : {None}, fields : FieldArgs]
    ELSE [status : {None}, fields : {{}}]

\* The TEAMSNAP_READONLY values the server is run with.
ServerReadonlyEnvs == { None, <<"f","a","l","s","e">> }

\* The TEAMSNAP_ACCESS_TOKEN values the server is run with.
ServerTokenEnvs == { None, << >>, <<"t","o","k">> }

\* An invocation slot nobody uses.
IdleInv ==
    [pc |-> "idle", tool |-> "none", status |-> None, fields |-> {},
     result |-> "none", client |-> "none", cid |-> 0, calls |-> << >>]

\* The TeamSnapAsyncClient objects that can be alive at once, by identity.
ClientIds == 1..MaxInv

\* get_client() handing every caller the same object.
get_client_shared(ps, s) == 1

\* get_client(): a new TeamSnapAsyncClient, an object nobody holds yet. Of
\* the free identities the model takes the one numbered as the slot of the
\* invocation that calls; it is free, the slot's earlier client having been
\* released with the slot.
get_client(ps, s) == CHOOSE c \in ClientIds : ps[c] = "free" /\ c = s

\* How the awaited HTTP call of a tool can end: a 2xx answer with items or
\* without, a non-2xx answer (raise_for_status raises HTTPStatusError), any
\* other exception of the transport or of response.json(); for
\* get_event_availability also a 2xx answer with an item whose status_code
\* is null.
Outcomes(tool) ==
    { "items", "no_items", "http_error", "other_error" } \cup
    (IF tool = "get_event_availability" THEN {"items_null_status"} ELSE {})

\* check_readonly(): whether it returns the advisory text.
check_readonly(ro_env) == is_readonly(ro_env)

\* TeamSnapAsyncClient(): access_token or os.getenv(...) is empty -> raises
\* ValueError; else the connection pool is opened.
ClientConstructs(tok_env) == Truthy(tok_env)

\* The slot after a tool ran from its call to its first suspension (the
\* awaited HTTP request) or to its end. The with-block's exit closes the
\* client on every way out of it.
Started(tool, args, ro_env, tok_env) ==
    LET base == [IdleInv EXCEPT !.tool = tool, !.status = args.status,
                                !.fields = args.fields]
    IN  IF ChecksReadonly(tool) /\ check_readonly(ro_env)
            THEN [base EXCEPT !.pc = "returned", !.result = "readonly_advisory"]
        ELSE IF ~ClientConstructs(tok_env)
            THEN [base EXCEPT !.pc = "raised", !.result = "ValueError"]
        ELSE IF tool = "update_availability"
                /\ Lower(args.status) \notin ValidStatuses
            THEN [base EXCEPT !.pc = "returned", !.result = "invalid_status",
                              !.client = "closed"]
        ELSE IF tool \in {"update_event", "update_member"} /\ args.fields = {}
            THEN [base EXCEPT !.pc = "returned", !.result = "no_fields",
                              !.client = "closed"]
        ELSE [base EXCEPT
                !.pc = "awaiting", !.client = "open",
                !.calls = << [op |-> ClientOp(tool),
                              method |-> HttpMethod(tool),
                              status |-> IF tool = "update_availability"
                                         THEN Lower(args.status)
                                         ELSE None,
                              fields |-> args.fields] >>]

\* The text a tool returns after a 2xx answer.
Rendered(tool, outcome) ==
    CASE tool \in { "get_team_details", "get_event_details" } ->
            IF outcome = "items" THEN "details" ELSE "not_found"
      [] tool \in ReadTools ->
            IF outcome = "items" THEN "listing" ELSE "none_found"
      [] tool \in { "create_event", "create_member", "create_assignment",
                    "create_location" } ->
            IF outcome = "items" THEN "created" ELSE "created_no_details"
      [] tool \in { "update_event", "update_member",
                    "update_availability" } -> "updated"
      [] OTHER -> "deleted"

\* Finished with the client closed only on the way out without exception.
Finished_close_on_success(r, outcome) ==
    LET failed == \/ outcome \in {"http_error", "other_error"}
                  \/ outcome = "items_null_status"
    IN  IF failed
            THEN IF CatchesExceptions(r.tool)
                    THEN [r EXCEPT !.pc = "returned", !.result = "error_text",
                                   !.client = "closed"]
                    ELSE [r EXCEPT !.pc = "raised", !.result = "Exception"]
            ELSE [r EXCEPT !.pc = "returned", !.client = "closed",
                           !.result = Rendered(r.tool, outcome)]

\* The slot after the awaited HTTP call ended and the tool ran to its end.
Finished(r, outcome) ==
    LET failed == \/ outcome \in {"http_error", "other_error"}
                  \/ outcome = "items_null_status"
        closed == [r EXCEPT !.client = "closed"]
    IN  IF failed
            THEN IF CatchesExceptions(r.tool)
                    THEN [closed EXCEPT !.pc = "returned",
                                        !.result = "error_text"]
                    ELSE [closed EXCEPT !.pc = "raised",
                                        !.result = "Exception"]
            ELSE [closed EXCEPT !.pc = "returned",
                                !.result = Rendered(r.tool, outcome)]


----------------------------------------------------------------------------
(* server.py: get_event_availability, from the answer of the API on *)

\* The most availability items an answer holds.
MaxAvail == 2

\* 'Unknown Member', the default of member_name.
UnknownMember ==
    <<"U","n","k","n","o","w","n"," ","M","e","m","b","e","r">>

\* What extract_item_data gives under one key of an item: no such key
\* ("absent": the item has no such field), None ("null": the field has no
\* value, or the value null), a number, or a text.
AbsentField == [kind |-> "absent", text |-> << >>]
NullField == [kind |-> "null", text |-> << >>]

\* The status_code values the items are drawn with.
StatusCodes ==
    { AbsentField, NullField, [kind |-> "number", text |-> <<"1">>] } \cup
    [kind : {"text"},
     text : { <<"y","e","s">>, <<"Y","E","S">>, <<"N","o">>,
              <<"m","a","y","b","e">>, <<"u","n","k","n","o","w","n">>,
              <<"o","k">> }]

\* The member_name values the items are drawn with.
MemberNames ==
    { AbsentField } \cup [kind : {"text"}, text : { <<"A">>, <<"B">> }]

\* The dict extract_item_data gives for an availability item, as far as
\* the tool reads it.
AvailItems == [status_code : StatusCodes, member_name : MemberNames]

\* The JSON answer of /availabilities/search: with or without "collection",
\* the collection with or without "items".
Envelopes ==
    [collection : {FALSE}, has_items : {FALSE}, items : {<< >>}] \cup
    [collection : {TRUE}, has_items : {FALSE}, items : {<< >>}] \cup
    [collection : {TRUE}, has_items : {TRUE},
     items : UNION { [1..k -> AvailItems] : k \in 0..MaxAvail }]

\* response.get("collection", {}).get("items", [])
envelope_items(envelope) ==
    IF envelope.collection /\ envelope.has_items THEN envelope.items
    ELSE << >>

\* by_status = {'yes': [], 'no': [], 'maybe': [], 'unknown': []}
EmptyGroups ==
    [yes |-> << >>, no |-> << >>, maybe |-> << >>, unknown |-> << >>]

\* avail_data.get('status_code', 'unknown').lower(): None and numbers have
\* no lower().
avail_status(avail_data) ==
    LET status_code == avail_data.status_code
    IN  IF status_code.kind = "absent"
            THEN [raised |-> FALSE, value |-> <<"u","n","k","n","o","w","n">>]
        ELSE IF status_code.kind = "text"
            THEN [raised |-> FALSE, value |-> Lower(status_code.text)]
        ELSE [raised |-> TRUE, value |-> << >>]

\* avail_data.get('member_name', 'Unknown Member')
avail_member_name(avail_data) ==
    IF avail_data.member_name.kind = "absent" THEN UnknownMember
    ELSE avail_data.member_name.text

\* if status in by_status: by_status[status] else by_status['unknown']
avail_group(status) ==
    IF status = <<"y","e","s">> THEN "yes"
    ELSE IF status = <<"n","o">> THEN "no"
    ELSE IF status = <<"m","a","y","b","e">> THEN "maybe"
    ELSE "unknown"

\* by_status[group].append(member_name)
GroupAppend(by_status, group, member_name) ==
    [by_status EXCEPT ![group] = Append(@, member_name)]

RECURSIVE group_loop(_, _, _)
\* for avail_item in availabilities, from the i-th item on: the groups, or
\* the exception that ended the loop.
group_loop(availabilities, i, by_status) ==
    IF i > Len(availabilities)
        THEN [raised |-> FALSE, by_status |-> by_status]
    ELSE IF avail_status(availabilities[i]).raised
        THEN [raised |-> TRUE, by_status |-> by_status]
    ELSE group_loop(availabilities, i + 1,
            GroupAppend(by_status,
                        avail_group(avail_status(availabilities[i]).value),
                        avail_member_name(availabilities[i])))

\* get_event_availability not called.
NoAvailability ==
    [called |-> FALSE, raised |-> FALSE, text |-> "none",
     availabilities |-> << >>, by_status |-> EmptyGroups]

\* get_event_availability(event_id), from the answer of the API on: what
\* search_availabilities returned, and the text returned or the exception.
get_event_availability(envelope) ==
    LET availabilities == envelope_items(envelope)
        grouped == group_loop(availabilities, 1, EmptyGroups)
        called == [NoAvailability EXCEPT !.called = TRUE,
                                         !.availabilities = availabilities]
    IN  IF availabilities = << >>
            THEN [called EXCEPT !.text = "no_responses"]
        ELSE IF grouped.raised
            THEN [called EXCEPT !.raised = TRUE, !.text = "AttributeError"]
        ELSE [called EXCEPT !.text = "availability",
                            !.by_status = grouped.by_status]

----------------------------------------------------------------------------
(* teamsnap_mcp/client.py: the client object, its searches and version *)

\* The most calls made on one client.
MaxCalls == 3

\* The access_token arguments the constructor is called with: the default
\* None, the empty text, a token.
TokenArgs == { None, << >>, <<"p">> }

\* The TEAMSNAP_ACCESS_TOKEN values of the process constructing a client.
ClientTokenEnvs == { None, << >>, <<"e">> }

\* Python's a or b on texts.
py_or(a, b) == IF Truthy(a) THEN a ELSE b

\* No TeamSnapAsyncClient constructed.
NoAsyncClient ==
    [pc |-> "none", arg |-> None, access_token |-> None, pool |-> FALSE,
     api_version |-> None]

\* A constructor that reads the environment before its parameter.
async_init_env_first(access_token, env) ==
    LET token == py_or(env, access_token)
    IN  IF ~Truthy(token)
            THEN [NoAsyncClient EXCEPT !.pc = "raised", !.arg = access_token]
        ELSE [pc |-> "constructed", arg |-> access_token,
              access_token |-> token, pool |-> TRUE, api_version |-> None]

\* __init__(access_token): ValueError before httpx.AsyncClient is created
\* when neither the parameter nor the environment gives a token.
async_init(access_token, env) ==
    LET token == py_or(access_token, env)
    IN  IF ~Truthy(token)
            THEN [NoAsyncClient EXCEPT !.pc = "raised", !.arg = access_token]
        ELSE [pc |-> "constructed", arg |-> access_token,
              access_token |-> token, pool |-> TRUE, api_version |-> None]

\* An Optional[int] argument: None, or an id.
NoId == [kind |-> "none", id |-> 0]
IdValues == { NoId } \cup [kind : {"int"}, id : {0, 7}]

\* Python's truth value of an Optional[int]: None and 0 are false.
TruthyId(v) == v.kind = "int" /\ v.id # 0

\* The search methods: the path each sends its GET to and the filters it
\* takes.
SearchTable ==
    [search_teams |-> [path |-> "/teams/search", filters |-> {"user_id"}],
     search_members |-> [path |-> "/members/search", filters |-> {"team_id"}],
     search_events |-> [path |-> "/events/search", filters |-> {"team_id"}],
     search_availabilities |->
        [path |-> "/availabilities/search",
         filters |-> {"event_id", "member_id"}],
     search_assignments |->
        [path |-> "/assignments/search", filters |-> {"team_id", "event_id"}],
     search_locations |->
        [path |-> "/locations/search", filters |-> {"team_id"}],
     search_opponents |->
        [path |-> "/opponents/search", filters |-> {"team_id"}],
     search_forum_topics |->
        [path |-> "/forum_topics/search", filters |-> {"team_id"}],
     search_forum_posts |->
        [path |-> "/forum_posts/search",
         filters |-> {"team_id", "forum_topic_id"}],
     search_broadcast_emails |->
        [path |-> "/broadcast_emails/search", filters |-> {"team_id"}],
     search_messages |->
        [path |-> "/messages/search", filters |-> {"team_id"}]]

SearchMethods == DOMAIN SearchTable

\* The arguments a search method can be called with.
SearchArgs(method) == [SearchTable[method].filters -> IdValues]

\* What self.get gives a search: an exception (ok is FALSE), or the JSON
\* answer.
SearchAnswers ==
    [ok : BOOLEAN,
     json : [collection : {FALSE}, has_items : {FALSE}, items : {<< >>}] \cup
            [collection : {TRUE}, has_items : BOOLEAN, items : {<< >>}] \cup
            { [collection |-> TRUE, has_items |-> TRUE,
               items |-> << [status_code |-> AbsentField,
                             member_name |-> AbsentField] >>] }]

\* params = {}; if x: params["x"] = x, for each filter x of the method.
search_params(method, args) ==
    [f \in { x \in SearchTable[method].filters : TruthyId(args[x]) }
        |-> args[f].id]

\* No method called yet; root is what get_root gave the call, if asked.
NoCall ==
    [n |-> 0, kind |-> "none", method |-> "none", args |-> << >>,
     requests |-> << >>, root |-> [ok |-> FALSE, version |-> None],
     raised |-> FALSE, items |-> << >>, version |-> None]

\* search_X(**args), the n-th call on the client: the GET it sends, and
\* the items it returns or the exception of self.get.
search(method, args, answer, n) ==
    LET called == [NoCall EXCEPT !.n = n, !.kind = "search",
                       !.method = method, !.args = args,
                       !.requests =
                            << [verb |-> "GET",
                                path |-> SearchTable[method].path,
                                params |-> search_params(method, args)] >>]
    IN  IF ~answer.ok THEN [called EXCEPT !.raised = TRUE]
        ELSE [called EXCEPT !.items = envelope_items(answer.json)]

\* What get_root gives: an exception (ok is FALSE), or the JSON of the API
\* root; version is None when the root has no collection or the collection
\* no version.
RootAnswers ==
    [ok : BOOLEAN,
     version : { None, << >>, <<"3",".","1">>, <<"3",".","2">> }]

\* get_api_version that fetches the root on every call.
get_api_version_fetch_always(client, root, n) ==
    LET fetched == [NoCall EXCEPT !.n = n, !.kind = "get_api_version",
                        !.root = root,
                        !.requests = << [verb |-> "GET", path |-> "/",
                                         params |-> << >>] >>]
    IN  IF ~root.ok
            THEN [client |-> client,
                  call |-> [fetched EXCEPT !.raised = TRUE]]
        ELSE [client |-> [client EXCEPT !.api_version = root.version],
              call |-> [fetched EXCEPT !.version = root.version]]

\* get_api_version(), the n-th call on the client: the client afterwards,
\* and the GET sent, if any, with the version returned or the exception of
\* get_root.
get_api_version(client, root, n) ==
    LET called == [NoCall EXCEPT !.n = n, !.kind = "get_api_version"]
        fetched == [called EXCEPT
                        !.root = root,
                        !.requests = << [verb |-> "GET", path |-> "/",
                                         params |-> << >>] >>]
    IN  IF Truthy(client.api_version)
            THEN [client |-> client,
                  call |-> [called EXCEPT !.version = client.api_version]]
        ELSE IF ~root.ok
            THEN [client |-> client,
                  call |-> [fetched EXCEPT !.raised = TRUE]]
        ELSE [client |-> [client EXCEPT !.api_version = root.version],
              call |-> [fetched EXCEPT !.version = root.version]]

----------------------------------------------------------------------------
(* teamsnap_client.py: the construction of the synchronous client *)

\* No TeamSnapClient constructed; valid is what is_token_valid() returned
\* to the constructor, flows the calls of authenticate() it made.
NoSyncClient ==
    [pc |-> "none", auto_authenticate |-> FALSE, valid |-> FALSE,
     flows |-> 0, bearer |-> None, api_requests |-> << >>,
     api_version |-> None]

\* The end of __init__: the session's Authorization header is set from
\* get_access_token(), then _check_api_version() fetches the root and keeps
\* its version, swallowing every exception.
sync_finish(s, cfg, root) ==
    LET access_token == get_access_token(cfg)
    IN  [s EXCEPT !.pc = "constructed",
                  !.bearer = access_token,
                  !.api_requests = << [verb |-> "GET", path |-> "/",
                                       bearer |-> access_token] >>,
                  !.api_version = IF root.ok /\ Truthy(root.version)
                                    THEN root.version ELSE None]

\* A constructor that goes on to the API when it may not authenticate.
sync_init_never_raises(cfg, auto_authenticate, t_now, root) ==
    LET s == [NoSyncClient EXCEPT !.auto_authenticate = auto_authenticate,
                                  !.valid = is_token_valid(cfg, t_now)]
    IN  IF s.valid \/ ~auto_authenticate
            THEN [client |-> sync_finish(s, cfg, root),
                  auth |-> NoAuthenticate]
        ELSE [client |-> [s EXCEPT !.pc = "authenticating", !.flows = 1],
              auth |-> authenticate_begin(cfg, t_now)]

\* __init__(config_file, auto_authenticate), to its end or to the prompt of
\* authenticate(): the client, and the call of authenticate().
sync_init(cfg, auto_authenticate, t_now, root) ==
    LET s == [NoSyncClient EXCEPT !.auto_authenticate = auto_authenticate,
                                  !.valid = is_token_valid(cfg, t_now)]
    IN  IF s.valid
            THEN [client |-> sync_finish(s, cfg, root),
                  auth |-> NoAuthenticate]
        ELSE IF auto_authenticate
            THEN [client |-> [s EXCEPT !.pc = "authenticating", !.flows = 1],
                  auth |-> authenticate_begin(cfg, t_now)]
        ELSE [client |-> [s EXCEPT !.pc = "raised"], auth |-> NoAuthenticate]

\* __init__ after authenticate() went on from the prompt: its exception
\* ends the construction.
sync_code(s, a) ==
    IF a.pc = "raised" THEN [s EXCEPT !.pc = "raised"] ELSE s

\* __init__ after authenticate() ended: its exception ends the
\* construction, otherwise the constructor runs to its end.
sync_end(s, a, cfg, root) ==
    IF a.pc = "raised" THEN [s EXCEPT !.pc = "raised"]
    ELSE sync_finish(s, cfg, root)

----------------------------------------------------------------------------
(* Idle values of each component, and the actions *)

IdleReadonly == ro_out = NotCalled
IdleServer ==
    /\ readonly_env = None /\ token_env = None
    /\ inv = << >> /\ pools = << >>
IdleClient == req = NoRequest
IdleRun == snapshot_files = << >> /\ run_out = NoRun
IdleAvail == avail_response = << >> /\ avail_out = NoAvailability
IdleRace == procs = << >> /\ writes = << >>
IdleAsync == aclient = NoAsyncClient /\ acall = NoCall
IdleSync == sclient = NoSyncClient
IdleRest == IdleAvail /\ IdleRace /\ IdleAsync /\ IdleSync
IdleExtract == item = NoItem /\ extracted = NotExtracted
IdleAuth ==
    /\ config = NoConfig /\ now = 0 /\ valid_out = NotCalled
    /\ auth = NoAuthenticate /\ config_file = NoConfig
IdleMonitor ==
    /\ old_state = get_current_api_state([version |-> "3.866.0", links |-> << >>])
    /\ new_state = old_state
    /\ changes = NotCompared

serverVars == << readonly_env, token_env, inv, pools >>
clientVars == << req >>
runVars == << snapshot_files, run_out >>
extractVars == << item, extracted >>
authVars == << config, now, valid_out, auth, config_file >>
monitorVars == << old_state, new_state, changes >>
availVars == << avail_response, avail_out >>
raceVars == << procs, writes >>
asyncVars == << aclient, acall >>
syncVars == << sclient >>
restVars == << availVars, raceVars, asyncVars, syncVars >>
baseVars == << ro_out, serverVars, extractVars, authVars, monitorVars,
               clientVars, runVars >>

\* One call of is_readonly().
IsReadonlyCall ==
    /\ ~ro_out.returned
    /\ ro_out' = [returned |-> TRUE, value |-> is_readonly(readonly_env)]
    /\ UNCHANGED << serverVars, extractVars, authVars, monitorVars,
                    clientVars, runVars,
                    restVars >>

\* One call of extract_item_data(item).
ExtractCall ==
    /\ ~extracted.returned
    /\ extracted' = [returned |-> TRUE, value |-> extract_item_data(item)]
    /\ UNCHANGED << item, ro_out, serverVars, authVars, monitorVars,
                    clientVars, runVars,
                    restVars >>

\* One call of is_token_valid().
IsTokenValidCall ==
    /\ ~valid_out.returned
    /\ valid_out' = [returned |-> TRUE, value |-> is_token_valid(config, now)]
    /\ UNCHANGED << config, now, auth, config_file, ro_out, serverVars,
                    extractVars, monitorVars, clientVars, runVars,
                    restVars >>

\* authenticate() is called, whatever the last call did, and runs to its
\* prompt.
Authenticate ==
    /\ auth.pc \in {"idle", "returned", "raised"}
    /\ auth' = authenticate_begin(config, now)
    /\ UNCHANGED << config, now, valid_out, config_file, ro_out, serverVars,
                    extractVars, monitorVars, clientVars, runVars,
                    restVars >>

\* The user types a text at the prompt; authenticate() raises or posts the
\* token request.
EnterCode(typed) ==
    /\ auth.pc = "prompt"
    /\ auth' = authenticate_code(auth, config, typed)
    /\ UNCHANGED << config, now, valid_out, config_file, ro_out, serverVars,
                    extractVars, monitorVars, clientVars, runVars,
                    restVars >>

\* requests.post ends; exchange_code_for_token and authenticate() run to
\* their end.
TokenResponse(response) ==
    /\ auth.pc = "exchanging"
    /\ LET exchange == exchange_code_for_token(config, response, now)
       IN  /\ config' = exchange.config
           /\ config_file' = IF exchange.written THEN exchange.config
                                                ELSE config_file
           /\ auth' = authenticate_end(auth, response, now, exchange)
    /\ UNCHANGED << now, valid_out, ro_out, serverVars, extractVars,
                    monitorVars, clientVars, runVars,
                    restVars >>

\* A second passes.
Tick ==
    /\ now < MaxTime
    /\ now' = now + 1
    /\ UNCHANGED << config, valid_out, auth, config_file, ro_out, serverVars,
                    extractVars, monitorVars, clientVars, runVars,
                    restVars >>

\* One call of compare_states(old_state, new_state).
CompareStates ==
    /\ ~changes.returned
    /\ changes' = [returned |-> TRUE,
                   value |-> compare_states(old_state, new_state)]
    /\ UNCHANGED << old_state, new_state, ro_out, serverVars, extractVars,
                    authVars, clientVars, runVars,
                    restVars >>

\* The host calls a tool in a free slot; the tool runs to its first
\* suspension or to its end.
Invoke(s, tool, args) ==
    /\ inv[s].pc = "idle"
    /\ LET r == Started(tool, args, readonly_env, token_env)
           c == IF r.client = "none" THEN 0 ELSE get_client(pools, s)
       IN  /\ inv' = [inv EXCEPT ![s] = [r EXCEPT !.cid = c]]
           /\ pools' = IF c = 0 THEN pools
                                ELSE [pools EXCEPT ![c] = r.client]
    /\ UNCHANGED << readonly_env, token_env, ro_out, extractVars, authVars,
                    monitorVars, clientVars, runVars,
                    restVars >>

\* The HTTP call a tool is suspended at ends; the tool runs to its end.
Respond(s, outcome) ==
    /\ inv[s].pc = "awaiting"
    /\ outcome \in Outcomes(inv[s].tool)
    /\ inv' = [inv EXCEPT ![s] = Finished(inv[s], outcome)]
    /\ pools' = [pools EXCEPT ![inv[s].cid] = Finished(inv[s], outcome).client]
    /\ UNCHANGED << readonly_env, token_env, ro_out, extractVars, authVars,
                    monitorVars, clientVars, runVars,
                    restVars >>

\* The host takes what an ended invocation returned or raised.
Collect(s) ==
    /\ inv[s].pc \in {"returned", "raised"}
    /\ inv' = [inv EXCEPT ![s] = IdleInv]
    /\ pools' = IF inv[s].cid = 0 THEN pools
                                  ELSE [pools EXCEPT ![inv[s].cid] = "free"]
    /\ UNCHANGED << readonly_env, token_env, ro_out, extractVars, authVars,
                    monitorVars, clientVars, runVars,
                    restVars >>

\* A caller calls get, post, put, patch or delete; the request is sent.
ClientCall(kind, verb) ==
    /\ req.pc = "idle"
    /\ req' = client_call(kind, verb)
    /\ UNCHANGED << runVars, ro_out, serverVars, extractVars, authVars,
                    monitorVars,
                    restVars >>

\* The request ends; _request and its caller run to their end.
ClientAnswer(answer) ==
    /\ req.pc = "sent"
    /\ req' = client_answer(req, answer)
    /\ UNCHANGED << runVars, ro_out, serverVars, extractVars, authVars,
                    monitorVars,
                    restVars >>

\* One run of main() with the given flags.
Run(flags, fetch) ==
    /\ run_out.run < MaxRuns
    /\ snapshot_files' = main(snapshot_files, run_out, flags, fetch, now).files
    /\ run_out' = main(snapshot_files, run_out, flags, fetch, now).out
    /\ UNCHANGED << clientVars, ro_out, serverVars, extractVars, authVars,
                    monitorVars,
                    restVars >>

\* One call of save_snapshot(state, filename) by another caller than main.
SaveSnapshotCall(root, filename) ==
    /\ run_out.run < MaxRuns
    /\ LET n == run_out.run + 1
           state == RunState(root, now, n)
       IN  /\ snapshot_files' =
                    save_snapshot(snapshot_files, state, filename, now)
           /\ run_out' = [NoRun EXCEPT !.kind = "save_snapshot", !.run = n,
                                       !.current = state, !.saved = TRUE]
    /\ UNCHANGED << clientVars, ro_out, serverVars, extractVars, authVars,
                    monitorVars,
                    restVars >>

\* One call of get_event_availability; the API gives its answer.
GetEventAvailability ==
    /\ ~avail_out.called
    /\ avail_out' = get_event_availability(avail_response)
    /\ UNCHANGED << avail_response, raceVars, asyncVars, syncVars,
                    baseVars >>

\* Process p constructs its TeamSnapAuth: the file is read into memory.
AuthInit(p) ==
    /\ procs[p].pc = "none"
    /\ procs' = [procs EXCEPT ![p] = auth_init(config_file)]
    /\ UNCHANGED << writes, config, now, valid_out, auth, config_file, ro_out,
                    serverVars, extractVars, monitorVars, clientVars, runVars,
                    availVars, asyncVars, syncVars >>

\* The token request of process p ends; its exchange_code_for_token runs to
\* its end.
ProcTokenResponse(p, response) ==
    /\ procs[p].pc = "ready"
    /\ procs[p].exchanges < MaxExchanges
    /\ LET exchange == exchange_code_for_token(procs[p].config, response, now)
       IN  /\ procs' = [procs EXCEPT ![p].config = exchange.config,
                                     ![p].exchanges = @ + 1]
           /\ config_file' = IF exchange.written
                                THEN write_config(config_file, exchange.config)
                                ELSE config_file
           /\ writes' = IF exchange.written THEN Append(writes, p)
                                            ELSE writes
    /\ UNCHANGED << config, now, valid_out, auth, ro_out, serverVars,
                    extractVars, monitorVars, clientVars, runVars, availVars,
                    asyncVars, syncVars >>

\* TeamSnapAsyncClient(access_token) is constructed.
AsyncInit(access_token) ==
    /\ aclient.pc = "none"
    /\ aclient' = async_init(access_token, token_env)
    /\ UNCHANGED << acall, availVars, raceVars, syncVars, baseVars >>

\* One call of a search method, with the answer self.get gives it.
SearchCall(method, args, answer) ==
    /\ aclient.pc = "constructed"
    /\ acall.n < MaxCalls
    /\ acall' = search(method, args, answer, acall.n + 1)
    /\ UNCHANGED << aclient, availVars, raceVars, syncVars, baseVars >>

\* One call of get_api_version, with the answer get_root gives it if it
\* asks.
GetApiVersionCall(root) ==
    /\ aclient.pc = "constructed"
    /\ acall.n < MaxCalls
    /\ aclient' = get_api_version(aclient, root, acall.n + 1).client
    /\ acall' = get_api_version(aclient, root, acall.n + 1).call
    /\ UNCHANGED << availVars, raceVars, syncVars, baseVars >>

\* TeamSnapClient(config_file, auto_authenticate) is constructed; the
\* constructor runs to its end or to the prompt of authenticate().
SyncInit(auto_authenticate, root) ==
    /\ sclient.pc = "none"
    /\ sclient' = sync_init(config, auto_authenticate, now, root).client
    /\ auth' = sync_init(config, auto_authenticate, now, root).auth
    /\ UNCHANGED << config, now, valid_out, config_file, ro_out, serverVars,
                    extractVars, monitorVars, clientVars, runVars,
                    availVars, raceVars, asyncVars >>

\* The user types a text at the prompt of the constructor's
\* authenticate(): the construction raises or the token request is posted.
SyncEnterCode(typed) ==
    /\ sclient.pc = "authenticating"
    /\ auth.pc = "prompt"
    /\ auth' = authenticate_code(auth, config, typed)
    /\ sclient' = sync_code(sclient, authenticate_code(auth, config, typed))
    /\ UNCHANGED << config, now, valid_out, config_file, ro_out, serverVars,
                    extractVars, monitorVars, clientVars, runVars,
                    availVars, raceVars, asyncVars >>

\* The token request of the constructor's authenticate() ends;
\* exchange_code_for_token, authenticate() and the constructor run to
\* their end.
SyncTokenResponse(response, root) ==
    /\ sclient.pc = "authenticating"
    /\ auth.pc = "exchanging"
    /\ LET exchange == exchange_code_for_token(config, response, now)
           ended == authenticate_end(auth, response, now, exchange)
       IN  /\ config' = exchange.config
           /\ config_file' = IF exchange.written THEN exchange.config
                                                ELSE config_file
           /\ auth' = ended
           /\ sclient' = sync_end(sclient, ended, exchange.config, root)
    /\ UNCHANGED << now, valid_out, ro_out, serverVars, extractVars,
                    monitorVars, clientVars, runVars,
                    availVars, raceVars, asyncVars >>

----------------------------------------------------------------------------
(* Specifications *)

\* is_readonly on any value, or none, of TEAMSNAP_READONLY.
InitReadonly ==
    /\ readonly_env \in {None} \cup TextsUpTo(EnvChars, MaxEnvLen)
    /\ ro_out = NotCalled
    /\ token_env = None /\ inv = << >> /\ pools = << >>
    /\ IdleExtract /\ IdleAuth /\ IdleMonitor
    /\ IdleClient /\ IdleRun
    /\ IdleRest

NextReadonly == IsReadonlyCall

SpecReadonly == InitReadonly /\ [][NextReadonly]_vars

\* extract_item_data on any item within the bounds.
InitExtract ==
    /\ item \in Items
    /\ extracted = NotExtracted
    /\ IdleReadonly /\ IdleServer /\ IdleAuth /\ IdleMonitor
    /\ IdleClient /\ IdleRun
    /\ IdleRest

NextExtract == ExtractCall

SpecExtract == InitExtract /\ [][NextExtract]_vars

\* is_token_valid on any stored credential at any instant.
InitAuth ==
    /\ config \in Configs
    /\ now \in Instants
    /\ valid_out = NotCalled
    /\ auth = NoAuthenticate /\ config_file = NoConfig
    /\ IdleReadonly /\ IdleServer /\ IdleExtract /\ IdleMonitor
    /\ IdleClient /\ IdleRun
    /\ IdleRest

NextAuth == IsTokenValidCall

SpecAuth == InitAuth /\ [][NextAuth]_vars

\* The authorization flow: the constructor has read the configuration file;
\* authenticate() is called any number of times while the clock runs.
InitAuthFlow ==
    /\ config \in StoredCredentials
    /\ config_file = config
    /\ now = 0
    /\ valid_out = NotCalled
    /\ auth = NoAuthenticate
    /\ IdleReadonly /\ IdleServer /\ IdleExtract /\ IdleMonitor
    /\ IdleClient /\ IdleRun
    /\ IdleRest

NextAuthFlow ==
    \/ Authenticate
    \/ \E typed \in CodeInputs : EnterCode(typed)
    \/ \E response \in TokenResponses : TokenResponse(response)
    \/ Tick

SpecAuthFlow == InitAuthFlow /\ [][NextAuthFlow]_vars

\* compare_states on any two snapshots get_current_api_state produces.
InitMonitor ==
    /\ old_state \in Snapshots
    /\ new_state \in Snapshots
    /\ changes = NotCompared
    /\ IdleReadonly /\ IdleServer /\ IdleExtract /\ IdleAuth
    /\ IdleClient /\ IdleRun
    /\ IdleRest

NextMonitor == CompareStates

SpecMonitor == InitMonitor /\ [][NextMonitor]_vars

\* The server: the environment is fixed when the process starts; the host
\* then calls tools, and the calls interleave at their HTTP requests.
Init ==
    /\ readonly_env \in ServerReadonlyEnvs
    /\ token_env \in ServerTokenEnvs
    /\ inv = [s \in Slots |-> IdleInv]
    /\ pools = [c \in ClientIds |-> "free"]
    /\ IdleReadonly /\ IdleExtract /\ IdleAuth /\ IdleMonitor
    /\ IdleClient /\ IdleRun
    /\ IdleRest

Next ==
    \/ \E s \in Slots, tool \in Tools : \E args \in ArgsOf(tool) :
            Invoke(s, tool, args)
    \/ \E s \in Slots :
            \E outcome \in { "items", "no_items", "http_error", "other_error",
                             "items_null_status" } :
                Respond(s, outcome)
    \/ \E s \in Slots : Collect(s)

Spec == Init /\ [][Next]_vars

\* One request of either client, with any answer.
InitClient ==
    /\ req = NoRequest
    /\ IdleReadonly /\ IdleServer /\ IdleExtract /\ IdleAuth /\ IdleMonitor
    /\ IdleRun
    /\ IdleRest

NextClient ==
    \/ \E kind \in ClientKinds : \E verb \in Verbs(kind) :
            ClientCall(kind, verb)
    \/ \E answer \in Answers : ClientAnswer(answer)

SpecClient == InitClient /\ [][NextClient]_vars

\* The monitor: the snapshots directory starts empty; runs of main() and
\* calls of save_snapshot follow one another while the clock runs.
InitRun ==
    /\ snapshot_files = [name \in SnapshotNames |-> NoFile]
    /\ run_out = NoRun
    /\ IdleReadonly /\ IdleServer /\ IdleExtract /\ IdleAuth /\ IdleMonitor
    /\ IdleClient
    /\ IdleRest

NextRun ==
    \/ \E flags \in Flags, fetch \in Fetches : Run(flags, fetch)
    \/ \E root \in RunRoots, filename \in {None, GivenName} :
            SaveSnapshotCall(root, filename)
    \/ Tick

SpecRun == InitRun /\ [][NextRun]_vars


----------------------------------------------------------------------------

\* get_event_availability on any answer within the bounds.
InitAvail ==
    /\ avail_response \in Envelopes
    /\ avail_out = NoAvailability
    /\ IdleReadonly /\ IdleServer /\ IdleExtract /\ IdleAuth /\ IdleMonitor
    /\ IdleClient /\ IdleRun /\ IdleRace /\ IdleAsync /\ IdleSync

NextAvail == GetEventAvailability

SpecAvail == InitAvail /\ [][NextAvail]_vars

\* Several processes on one configuration file: each constructs its
\* TeamSnapAuth and completes token exchanges, in any order, while the clock
\* runs.
InitRace ==
    /\ config_file \in SharedCredentials
    /\ procs = [p \in Procs |-> NoProc]
    /\ writes = << >>
    /\ now = 0
    /\ config = NoConfig /\ valid_out = NotCalled /\ auth = NoAuthenticate
    /\ IdleReadonly /\ IdleServer /\ IdleExtract /\ IdleMonitor
    /\ IdleClient /\ IdleRun /\ IdleAvail /\ IdleAsync /\ IdleSync

NextRace ==
    \/ \E p \in Procs : AuthInit(p)
    \/ \E p \in Procs : \E response \in ProcResponses(p) :
            ProcTokenResponse(p, response)
    \/ Tick

SpecRace == InitRace /\ [][NextRace]_vars

\* One asynchronous client: the environment is fixed when the process
\* starts; the client is constructed and its methods are called one after
\* another.
InitAsync ==
    /\ token_env \in ClientTokenEnvs
    /\ aclient = NoAsyncClient
    /\ acall = NoCall
    /\ readonly_env = None /\ inv = << >> /\ pools = << >>
    /\ IdleReadonly /\ IdleExtract /\ IdleAuth /\ IdleMonitor
    /\ IdleClient /\ IdleRun /\ IdleAvail /\ IdleRace /\ IdleSync

NextAsync ==
    \/ \E access_token \in TokenArgs : AsyncInit(access_token)
    \/ \E method \in SearchMethods :
            \E args \in SearchArgs(method), answer \in SearchAnswers :
                SearchCall(method, args, answer)
    \/ \E root \in RootAnswers : GetApiVersionCall(root)

SpecAsync == InitAsync /\ [][NextAsync]_vars

\* The synchronous client: the configuration file holds the credential of
\* an earlier exchange, or none; the client is constructed at some instant
\* and its authorization, when it runs one, goes on while the clock runs.
InitSync ==
    /\ config \in StoredCredentials
    /\ config_file = config
    /\ now = 0
    /\ valid_out = NotCalled
    /\ auth = NoAuthenticate
    /\ sclient = NoSyncClient
    /\ IdleReadonly /\ IdleServer /\ IdleExtract /\ IdleMonitor
    /\ IdleClient /\ IdleRun /\ IdleAvail /\ IdleRace /\ IdleAsync

NextSync ==
    \/ \E auto_authenticate \in BOOLEAN, root \in RootAnswers :
            SyncInit(auto_authenticate, root)
    \/ \E typed \in CodeInputs : SyncEnterCode(typed)
    \/ \E response \in TokenResponses, root \in RootAnswers :
            SyncTokenResponse(response, root)
    \/ Tick

SpecSync == InitSync /\ [][NextSync]_vars

----------------------------------------------------------------------------
(* Claims on is_readonly *)

\* Two characters that are the same letter in either case.
SameLetter(a, b) ==
    \E p \in { <<"t","T">>, <<"r","R">>, <<"u","U">>, <<"e","E">>, <<"y","Y">>,
               <<"s","S">>, <<"o","O">>, <<"n","N">> } :
        {a, b} \subseteq {p[1], p[2]}

\* Text a equals text b when the case of letters is ignored.
EqIgnoreCase(a, b) ==
    /\ Len(a) = Len(b)
    /\ \A i \in 1..Len(a) : a[i] = b[i] \/ SameLetter(a[i], b[i])

\* C2: is_readonly() is true when TEAMSNAP_READONLY is unset and when its
\* value is, ignoring case, one of true, 1, yes, on; for every other value
\* (the empty text and values with blanks around them included) it is false.
C2_ReadonlyValues ==
    ro_out.returned =>
        (ro_out.value <=>
            \/ readonly_env = None
            \/ /\ readonly_env # None
               /\ \E w \in ReadonlyWords : EqIgnoreCase(readonly_env, w))

\* C2 witness: the value "TruE" was read and the server is read-only.
C2_Witness ==
    /\ readonly_env = <<"T","r","u","E">>
    /\ ro_out.returned
    /\ ro_out.value

----------------------------------------------------------------------------
(* Claims on the extractor *)

\* The positions of the item's field list whose descriptor carries name n.
PositionsOf(n) == { i \in 1..Len(item.data) : item.data[i].name = n }

\* The greatest element of a non-empty set of numbers.
Greatest(S) == CHOOSE x \in S : \A y \in S : y <= x

\* The names the item's descriptors carry (None: the descriptor has none).
CarriedNames == { item.data[i].name : i \in 1..Len(item.data) } \ {None}

\* C5 as stated: every name that the field list carries more than once is
\* mapped to the value of the last descriptor with that name.
C5_LastWriteWins_AnyName ==
    extracted.returned =>
        \A n \in CarriedNames :
            Cardinality(PositionsOf(n)) > 1 =>
                /\ n \in DOMAIN extracted.value
                /\ extracted.value[n] = item.data[Greatest(PositionsOf(n))].value

\* C5 amended: every non-empty name that the field list carries more than
\* once is mapped to the value of the last descriptor with that name.
C5_LastWriteWins ==
    extracted.returned =>
        \A n \in CarriedNames \ {<< >>} :
            Cardinality(PositionsOf(n)) > 1 =>
                /\ n \in DOMAIN extracted.value
                /\ extracted.value[n] = item.data[Greatest(PositionsOf(n))].value

\* C5 witness: "id" is carried twice with different values, and extracted.
C5_Witness ==
    /\ extracted.returned
    /\ Len(item.data) = 3
    /\ item.data[1] = [name |-> <<"i","d">>, value |-> "v2"]
    /\ item.data[3] = [name |-> <<"i","d">>, value |-> "v1"]
    /\ extracted.value[<<"i","d">>] = "v1"

\* C6 as stated: the keys of the result are exactly the names the
\* descriptors carry.
C6_KeysAreCarriedNames ==
    extracted.returned => DOMAIN extracted.value = CarriedNames

\* C6 amended: the keys of the result are exactly the non-empty names the
\* descriptors carry; a descriptor whose name is absent or empty adds no key.
C6_KeysAreNonEmptyNames ==
    extracted.returned => DOMAIN extracted.value = CarriedNames \ {<< >>}

\* C6 witness: a descriptor without a name, one with an empty name and one
\* with a name, extracted to a dict of one key.
C6_Witness ==
    /\ extracted.returned
    /\ Len(item.data) = 3
    /\ item.data[1].name = None
    /\ item.data[2].name = << >>
    /\ item.data[3].name = <<"n">>
    /\ DOMAIN extracted.value = { <<"n">> }

----------------------------------------------------------------------------
(* Claims on is_token_valid *)

\* The credential holds an access token (present and not empty).
HasToken == config.access_token # None /\ config.access_token # << >>

\* The recorded expiry is a timestamp that lies before / after now.
ExpiryInPast ==
    config.token_expires_at.kind \in {"naive", "aware"}
        /\ config.token_expires_at.t < now
ExpiryInFuture ==
    config.token_expires_at.kind \in {"naive", "aware"}
        /\ config.token_expires_at.t > now
NoExpiryRecorded == config.token_expires_at.kind \in {"absent", "empty"}

\* C7 as stated: a credential is reported invalid when its recorded expiry
\* is in the past, valid when it is in the future, valid when none is
\* recorded.
C7_ValidityByExpiry ==
    valid_out.returned =>
        /\ ExpiryInPast => ~valid_out.value
        /\ ExpiryInFuture => valid_out.value
        /\ NoExpiryRecorded => valid_out.value

\* C7 amended: a credential that holds an access token is reported invalid
\* when its recorded expiry, a timestamp without UTC offset as the
\* authenticator writes it, is in the past, valid when its recorded expiry
\* is in the future, and valid when none is recorded; a credential without
\* an access token is reported invalid whatever its expiry.
C7_ValidityByTokenAndExpiry ==
    valid_out.returned =>
        /\ HasToken /\ ExpiryInPast /\ config.token_expires_at.kind = "naive"
              => ~valid_out.value
        /\ HasToken /\ ExpiryInFuture => valid_out.value
        /\ HasToken /\ NoExpiryRecorded => valid_out.value
        /\ ~HasToken => ~valid_out.value

\* C7 witness: a token whose expiry passed was reported invalid.
C7_Witness ==
    /\ valid_out.returned
    /\ ~valid_out.value
    /\ config.access_token = <<"t","o","k">>
    /\ config.token_expires_at = [kind |-> "naive", t |-> 1]
    /\ now = 2

----------------------------------------------------------------------------
(* Claims on the authorization flow *)

\* The authenticator holds a token is_token_valid accepts.
Authenticated == is_token_valid(config, now)

\* The call of authenticate() has ended.
AuthenticateEnded == auth.pc \in {"returned", "raised"}

\* C12, the step: whenever the authenticator turns from unauthenticated to
\* authenticated, a non-empty code had been entered and the token endpoint
\* has answered 200.
C12_OnlyByCodeAndSuccess ==
    ~Authenticated /\ Authenticated' =>
        /\ auth.pc = "exchanging"
        /\ Strip(auth.raw) # << >>
        /\ auth'.response.answered
        /\ auth'.response.status = 200

\* C12, the failures: a call given a code that is empty after trimming has
\* raised without sending a token request, and a call answered with a status
\* other than 2xx has raised.
C12_FailsWithoutCodeOrSuccess ==
    /\ auth.raw # None /\ Strip(auth.raw) = << >> =>
            auth.pc = "raised" /\ auth.requests = << >>
    /\ AuthenticateEnded /\ auth.response.answered
        /\ auth.response.status \notin 200..299 =>
            auth.pc = "raised"

\* C12: authenticate moves from unauthenticated to authenticated only with a
\* non-empty code and a success answer of the token endpoint; it fails, with
\* no token request sent, on a code that is empty after trimming, and fails
\* on a non-success answer.
C12_AuthenticateOnlyByCodeAndSuccess ==
    [][C12_OnlyByCodeAndSuccess]_vars /\ []C12_FailsWithoutCodeOrSuccess

\* C12 witness: a call with a blank code has raised, the authenticator not
\* authenticated and nothing sent.
C12_Witness ==
    /\ auth.pc = "raised"
    /\ auth.raw = << " ", " " >>
    /\ auth.requests = << >>
    /\ ~Authenticated

\* The lifetime the last token response reported, or the default.
ReportedLifetime ==
    IF "expires_in" \in DOMAIN auth.response.token_data
        THEN auth.response.token_data["expires_in"]
        ELSE 7200

\* C13: after a successful exchange the expiry in the configuration file is
\* the time of the exchange plus the reported lifetime, 7200 seconds when
\* none was reported; at the time of an exchange with a positive lifetime
\* and a non-empty access token, is_token_valid is true.
C13_ExpiryIsExchangeTimePlusLifetime ==
    auth.exchanged =>
        /\ config_file.token_expires_at =
                [kind |-> "naive", t |-> auth.exchanged_at + ReportedLifetime]
        /\ ReportedLifetime > 0 /\ Truthy(config_file.access_token)
            /\ now = auth.exchanged_at =>
                is_token_valid(config_file, now)

\* C13 witness: an exchange at instant 2 that reported a lifetime of one
\* second and a token.
C13_Witness ==
    /\ auth.exchanged
    /\ auth.exchanged_at = 2
    /\ now = 2
    /\ ReportedLifetime = 1
    /\ config_file.access_token = <<"n","e","w">>

\* C14: every call of authenticate, whatever is stored, passes the browser
\* step and the prompt before a token request is sent, the request carries
\* the code entered in this call, and no request is a refresh-token grant.
C14_AlwaysFromBrowserStep ==
    /\ auth.pc # "idle" => auth.browser
    /\ auth.pc = "returned" => Len(auth.requests) = 1
    /\ \A i \in 1..Len(auth.requests) :
            /\ auth.requests[i].grant_type = "authorization_code"
            /\ auth.raw # None
            /\ auth.requests[i].code = Strip(auth.raw)
            /\ auth.requests[i].code # << >>

\* C14 witness: a call made while a valid access token and a refresh token
\* are stored has sent its token request.
C14_Witness ==
    /\ auth.pc = "exchanging"
    /\ Authenticated
    /\ Truthy(config.refresh_token)
    /\ Len(auth.requests) = 1

----------------------------------------------------------------------------
(* Claims on compare_states *)

\* Some link of snapshot st carries rel and is flagged deprecated.
FlaggedDeprecated(st, rel) ==
    \E i \in 1..Len(st.links) : st.links[i].rel = rel /\ st.links[i].deprecated

\* Some link of snapshot st carries rel.
Present(st, rel) == \E i \in 1..Len(st.links) : st.links[i].rel = rel

\* C8: the new_endpoints of compare_states(old, new) are the
\* removed_endpoints of compare_states(new, old).
C8_NewIsRemovedOfSwapped ==
    changes.returned =>
        changes.value.new_endpoints =
            compare_states(new_state, old_state).removed_endpoints

\* C8 witness: a comparison that found a new and a removed endpoint.
C8_Witness ==
    /\ changes.returned
    /\ changes.value.new_endpoints = {"members"}
    /\ changes.value.removed_endpoints = {"events"}

\* C9: compare_states(s, s) has no new, removed or newly deprecated
\* endpoints and version_changed false, and print_comparison reports no
\* changes for it.
C9_SelfComparisonEmpty ==
    changes.returned /\ old_state = new_state =>
        /\ changes.value.new_endpoints = {}
        /\ changes.value.removed_endpoints = {}
        /\ changes.value.new_deprecations = {}
        /\ ~changes.value.version_changed
        /\ ~print_comparison(changes.value)

\* C9 witness: a snapshot with a deprecated link was compared with itself.
C9_Witness ==
    /\ changes.returned
    /\ old_state = new_state
    /\ Len(new_state.links) = 2
    /\ new_state.deprecated_count = 1

\* C10 as stated: a relation is in new_deprecations exactly when it is
\* flagged deprecated in the new snapshot and was present and not flagged
\* deprecated in the old one.
C10_NewDeprecationsWasPresent ==
    changes.returned =>
        \A rel \in Rels :
            rel \in changes.value.new_deprecations <=>
                /\ FlaggedDeprecated(new_state, rel)
                /\ Present(old_state, rel)
                /\ ~FlaggedDeprecated(old_state, rel)

\* C10 amended: a relation is in new_deprecations exactly when it is
\* flagged deprecated in the new snapshot and not flagged deprecated in the
\* old one, whether the old snapshot lacks it or holds it undeprecated.
C10_NewDeprecations ==
    changes.returned =>
        \A rel \in Rels :
            rel \in changes.value.new_deprecations <=>
                /\ FlaggedDeprecated(new_state, rel)
                /\ ~FlaggedDeprecated(old_state, rel)

\* C10 witness: one relation deprecated since the old snapshot, one that
\* is new and deprecated at once; both are reported.
C10_Witness ==
    /\ changes.returned
    /\ Present(old_state, "teams") /\ ~FlaggedDeprecated(old_state, "teams")
    /\ ~Present(old_state, "events")
    /\ changes.value.new_deprecations = {"teams", "events"}

\* Snapshot A of C11: links teams and events, events flagged deprecated.
SnapshotA ==
    get_current_api_state(
        [version |-> "3.866.0",
         links |-> << [rel |-> "teams", deprecated |-> FALSE],
                      [rel |-> "events", deprecated |-> TRUE] >>])

\* Snapshot B of C11: links teams and members.
SnapshotB ==
    get_current_api_state(
        [version |-> "3.866.0",
         links |-> << [rel |-> "teams", deprecated |-> FALSE],
                      [rel |-> "members", deprecated |-> FALSE] >>])

\* C11: a relation flagged deprecated in the old snapshot and absent from
\* the new snapshot's links is in removed_endpoints and not in
\* new_deprecations; comparing A with B gives new_endpoints = {members},
\* removed_endpoints = {events} and no new deprecations.
C11_RemovedDeprecatedIsRemovedOnly ==
    changes.returned =>
        /\ \A rel \in Rels :
                FlaggedDeprecated(old_state, rel) /\ ~Present(new_state, rel) =>
                    /\ rel \in changes.value.removed_endpoints
                    /\ rel \notin changes.value.new_deprecations
        /\ old_state = SnapshotA /\ new_state = SnapshotB =>
                /\ changes.value.new_endpoints = {"members"}
                /\ changes.value.removed_endpoints = {"events"}
                /\ changes.value.new_deprecations = {}

\* C11 witness: A was compared with B.
C11_Witness ==
    /\ changes.returned
    /\ old_state = SnapshotA
    /\ new_state = SnapshotB
    /\ FlaggedDeprecated(old_state, "events")
    /\ ~Present(new_state, "events")

----------------------------------------------------------------------------
(* Claims on the tools *)

\* C1: with read-only mode enabled, every invocation of a write tool returns
\* the read-only advisory text, constructs no client and calls none.
C1_ReadonlyBlocksEveryWriteTool ==
    \A s \in Slots :
        inv[s].tool \in WriteTools /\ is_readonly(readonly_env) =>
            /\ inv[s].pc = "returned"
            /\ inv[s].result = "readonly_advisory"
            /\ inv[s].client = "none"
            /\ inv[s].calls = << >>

\* C3: update_availability with a status whose lowercase form is not one of
\* yes, no, maybe, unknown returns the 'Invalid status' text and calls no
\* client method; with a valid status it calls the client's
\* update_availability exactly once, with the lowercased status.
C3_UpdateAvailabilityStatus ==
    \A s \in Slots :
        inv[s].tool = "update_availability" =>
            IF Lower(inv[s].status) \notin ValidStatuses
                THEN /\ inv[s].pc = "returned"
                     /\ inv[s].result = "invalid_status"
                     /\ inv[s].calls = << >>
                ELSE /\ Len(inv[s].calls) = 1
                     /\ inv[s].calls[1].op = "update_availability"
                     /\ inv[s].calls[1].method = "PATCH"
                     /\ inv[s].calls[1].status = Lower(inv[s].status)

\* C4: no invocation of any tool ends by raising; whatever goes wrong while
\* the client is obtained or the API is called comes back as a text.
C4_NoToolRaises ==
    \A s \in Slots : inv[s].pc # "raised"

\* C15: a client's pool is open from its construction to the end of the
\* with-block and closed from then on, whether the block ends normally or
\* by an exception: an invocation suspended at its HTTP call holds an open
\* pool, and an invocation that constructed a client and has returned or
\* raised holds a closed one.
C15_ClientClosedWhenInvocationEnds ==
    \A s \in Slots :
        /\ inv[s].pc = "awaiting" =>
                inv[s].cid # 0 /\ pools[inv[s].cid] = "open"
        /\ inv[s].pc \in {"returned", "raised"} /\ inv[s].cid # 0 =>
                pools[inv[s].cid] = "closed"
        /\ inv[s].cid # 0 /\ pools[inv[s].cid] = "closed" =>
                inv[s].pc \in {"returned", "raised"}

\* C15 witness: one invocation ended by an exception of its HTTP call, one
\* ended normally, both with their client closed.
C15_Witness ==
    \E s, t \in Slots :
        /\ inv[s].pc = "raised" /\ inv[s].result = "Exception"
        /\ inv[s].cid # 0 /\ pools[inv[s].cid] = "closed"
        /\ inv[t].pc = "returned" /\ inv[t].result = "deleted"
        /\ inv[t].cid # 0 /\ pools[inv[t].cid] = "closed"

\* C20: invocations share no client: the clients of two invocations are
\* different objects, and the client of an invocation suspended at its HTTP
\* call is open whatever the other invocations did to theirs.
C20_InvocationsShareNoClient ==
    /\ \A s, t \in Slots :
            s # t /\ inv[s].cid # 0 /\ inv[t].cid # 0 =>
                inv[s].cid # inv[t].cid
    /\ \A s \in Slots :
            inv[s].pc = "awaiting" =>
                inv[s].cid # 0 /\ pools[inv[s].cid] = "open"

\* C20 witness: an invocation started while another was suspended has
\* closed its client and ended; the other is still suspended.
C20_Witness ==
    \E s, t \in Slots :
        /\ inv[s].pc = "awaiting" /\ pools[inv[s].cid] = "open"
        /\ inv[t].pc = "returned" /\ inv[t].cid # 0
        /\ inv[t].cid # inv[s].cid
        /\ pools[inv[t].cid] = "closed"

----------------------------------------------------------------------------
(* Claims on the clients' requests *)

\* C16: for both clients, a request answered with a status outside 2xx ends
\* with an exception at the caller of get/post/put/patch/delete, no result
\* returned, and every request is sent exactly once.
C16_NonSuccessRaisesSentOnce ==
    req.pc = "ended" =>
        /\ req.sent = 1
        /\ req.answer.answered /\ req.answer.status \notin 200..299 =>
                req.raised

----------------------------------------------------------------------------
(* Claims on the snapshot files and the runs of main *)

\* C17, the timestamped files: a step leaves every existing file named by a
\* timestamp as it is.
C17_TimestampedFileKept ==
    \A t \in Instants :
        snapshot_files[snapshot_name(t)].exists =>
            snapshot_files'[snapshot_name(t)] = snapshot_files[snapshot_name(t)]

\* C17, latest.json: after a step that saved, latest.json holds the state
\* saved; a step that did not save leaves it as it is.
C17_LatestIsLastSaved ==
    run_out'.run # run_out.run =>
        IF run_out'.saved
            THEN snapshot_files'[LATEST_SNAPSHOT] = run_out'.current
            ELSE snapshot_files'[LATEST_SNAPSHOT] =
                    snapshot_files[LATEST_SNAPSHOT]

\* C17: over any sequence of save_snapshot calls a timestamped snapshot file
\* is never overwritten once written, and latest.json holds the state of
\* the most recent save.
C17_SnapshotsImmutableLatestCurrent ==
    [][C17_TimestampedFileKept /\ C17_LatestIsLastSaved]_vars

\* A step that is a run of main() ending with exit code 0.
RunCompleted ==
    /\ run_out'.run # run_out.run
    /\ run_out'.kind = "main"
    /\ run_out'.exit_code = 0

\* What C18 says of a run that compares: latest.json as it was before the
\* run, written by an earlier run, is what the fetched state is compared
\* with; without such a file the run reports that and compares nothing.
ComparedWithEarlierLatest ==
    IF snapshot_files[LATEST_SNAPSHOT].exists
        THEN /\ run_out'.compared /\ ~run_out'.none_found
             /\ run_out'.previous = snapshot_files[LATEST_SNAPSHOT]
             /\ run_out'.previous.run < run_out'.run
             /\ run_out'.previous # run_out'.current
             /\ run_out'.changes =
                    compare_states(snapshot_files[LATEST_SNAPSHOT].api,
                                   run_out'.current.api)
        ELSE run_out'.none_found /\ ~run_out'.compared

\* C18 as stated: every run with --compare compares the fetched state with
\* the latest snapshot of an earlier run, never with itself, or reports that
\* there is none and compares nothing.
C18_CompareUsesEarlierLatest ==
    [][RunCompleted /\ run_out'.flags.compare => ComparedWithEarlierLatest]_vars

\* C18 amended: every run with --compare and without --save compares the
\* fetched state with the latest snapshot of an earlier run, never with
\* itself, or reports that there is none and compares nothing; a run with
\* --save compares nothing and reports nothing.
C18_CompareWithoutSaveUsesEarlierLatest ==
    [][RunCompleted /\ run_out'.flags.compare =>
        IF run_out'.flags.save
            THEN ~run_out'.compared /\ ~run_out'.none_found
            ELSE ComparedWithEarlierLatest]_vars

\* C18 witness: a run compared its state with the snapshot an earlier run
\* left, then saved its own as latest.json.
C18_Witness ==
    /\ run_out.compared
    /\ run_out.previous.exists
    /\ run_out.previous.run < run_out.run
    /\ run_out.changes.removed_endpoints = {"events"}
    /\ snapshot_files[LATEST_SNAPSHOT] = run_out.current

\* A run of main() has ended with exit code 0.
LastRunCompleted == run_out.kind = "main" /\ run_out.exit_code = 0

\* C19 as stated: each action a flag asks for is performed, whatever the
\* other flags.
C19_EveryRequestedActionPerformed ==
    LastRunCompleted =>
        /\ run_out.flags.save => run_out.saved
        /\ run_out.flags.compare => run_out.compared \/ run_out.none_found
        /\ run_out.flags.show_deprecations => run_out.listed

\* C19 amended: --save comes first: a run with --save saves the state and
\* does nothing else, whatever the other flags; a run without it lists the
\* deprecations exactly on --show-deprecations, compares (or reports no
\* previous snapshot) exactly on --compare, and saves the state.
C19_SaveExcludesOtherActions ==
    LastRunCompleted =>
        /\ run_out.saved
        /\ IF run_out.flags.save
              THEN /\ ~run_out.printed /\ ~run_out.listed
                   /\ ~run_out.compared /\ ~run_out.none_found
              ELSE /\ run_out.printed
                   /\ run_out.listed <=> run_out.flags.show_deprecations
                   /\ (run_out.compared \/ run_out.none_found)
                        <=> run_out.flags.compare

\* C19 witness: a run with all three flags, a snapshot of an earlier run
\* at hand, saved and neither compared nor listed.
C19_Witness ==
    /\ LastRunCompleted
    /\ run_out.run > 1
    /\ run_out.flags.save /\ run_out.flags.compare
    /\ run_out.flags.show_deprecations
    /\ run_out.saved /\ ~run_out.compared /\ ~run_out.listed
    /\ \E t \in Instants :
            /\ snapshot_files[snapshot_name(t)].exists
            /\ snapshot_files[snapshot_name(t)].run < run_out.run

----------------------------------------------------------------------------
(* Claims on get_event_availability *)

\* The answer lacks "collection", or its collection lacks "items".
LacksEnvelopeFields ==
    ~(avail_response.collection /\ avail_response.has_items)

\* C21: an answer lacking expected fields never causes an error: the search
\* returns the empty list when the answer has no collection or no items, and
\* get_event_availability, reading status_code and member_name of each
\* item, returns its text with defaults in place of what is missing and
\* raises nothing.
C21_MissingFieldsNeverRaise ==
    avail_out.called =>
        /\ ~avail_out.raised
        /\ LacksEnvelopeFields => avail_out.availabilities = << >>
        /\ avail_out.availabilities # << >> =>
                avail_out.text = "availability"

\* The group the claim puts an item in: the status compared ignoring case,
\* every unrecognised or missing status under unknown.
ClaimedGroup(avail_data) ==
    LET status_code == avail_data.status_code
    IN  IF status_code.kind # "text" THEN "unknown"
        ELSE IF EqIgnoreCase(status_code.text, <<"y","e","s">>) THEN "yes"
        ELSE IF EqIgnoreCase(status_code.text, <<"n","o">>) THEN "no"
        ELSE IF EqIgnoreCase(status_code.text, <<"m","a","y","b","e">>)
            THEN "maybe"
        ELSE "unknown"

\* C30: get_event_availability puts every availability item in exactly one
\* of the groups yes, no, maybe, unknown, the one its status names when case
\* is ignored and unknown for every other or missing status, so the four
\* counts sum to the number of items.
C30_EveryItemInOneGroup ==
    (avail_out.called /\ avail_out.availabilities # << >>) =>
        /\ ~avail_out.raised
        /\ \A g \in {"yes", "no", "maybe", "unknown"} :
                Len(avail_out.by_status[g]) =
                    Cardinality({ i \in DOMAIN avail_out.availabilities :
                        ClaimedGroup(avail_out.availabilities[i]) = g })
        /\ Len(avail_out.by_status.yes) + Len(avail_out.by_status.no)
                + Len(avail_out.by_status.maybe)
                + Len(avail_out.by_status.unknown)
            = Len(avail_out.availabilities)

----------------------------------------------------------------------------
(* Claims on processes sharing the configuration file *)

\* The process that wrote the file last.
LastWriter == writes[Len(writes)]

\* C22: of processes that each loaded the configuration at construction and
\* each complete a token exchange, every one rewrites the whole file from its
\* own copy in memory: once written, the file holds the token, refresh token
\* and expiry of the last writer and nothing of an earlier writer.
C22_FileHoldsLastWriterOnly ==
    writes # << >> =>
        /\ config_file = procs[LastWriter].config
        /\ \A i \in DOMAIN writes :
                writes[i] # LastWriter =>
                    config_file.access_token # <<"t", ToString(writes[i])>>

\* C22 witness: the lost update. Process 1 and then process 2 completed an
\* exchange; the refresh token process 1 obtained is in its memory only, the
\* file holding what process 2, which obtained none, wrote.
C22_Witness ==
    /\ writes = <<1, 2>>
    /\ procs[1].config.refresh_token = <<"r", "1">>
    /\ config_file.access_token = <<"t", "2">>
    /\ config_file.refresh_token = << >>

----------------------------------------------------------------------------
(* Claims on the asynchronous client *)

\* The constructor of the client has run.
AsyncInitEnded == aclient.pc \in {"constructed", "raised"}

SuppliedFilters ==
    [f \in { x \in DOMAIN acall.args : acall.args[x].kind = "int" }
        |-> acall.args[f].id]

\* C24: each search method sends exactly one GET to its fixed search path,
\* and the query parameters of that GET are exactly the filters the caller
\* supplied, name = value, for every id the caller can pass: none when no
\* filter is given.
C24_ParamsAreSuppliedFilters ==
    acall.kind = "search" =>
        /\ Len(acall.requests) = 1
        /\ acall.requests[1].verb = "GET"
        /\ acall.requests[1].path = SearchTable[acall.method].path
        /\ acall.requests[1].params = SuppliedFilters

\* The step is a call of get_api_version.
GetApiVersionStep ==
    acall'.kind = "get_api_version" /\ acall'.n = acall.n + 1

\* The call returned the stored version and fetched nothing.
ReturnedStored ==
    /\ acall'.requests = << >>
    /\ ~acall'.raised
    /\ acall'.version = aclient.api_version
    /\ aclient' = aclient

\* The call fetched the root once, returned the version it advertises and
\* stored it; when get_root raised, nothing is stored.
FetchedRoot ==
    /\ Len(acall'.requests) = 1
    /\ acall'.requests[1].verb = "GET"
    /\ acall'.requests[1].path = "/"
    /\ IF acall'.root.ok
            THEN /\ ~acall'.raised
                 /\ acall'.version = acall'.root.version
                 /\ aclient'.api_version = acall'.root.version
       ELSE acall'.raised /\ aclient' = aclient

\* C26 as stated: get_api_version returns the version the API root
\* advertises and stores it in api_version; once any version has been
\* stored, later calls return it without fetching the root again; a root
\* advertising no version leaves api_version unset, so the next call
\* fetches again.
C26_AnyStoredVersionIsKept ==
    [][GetApiVersionStep =>
        IF aclient.api_version # None THEN ReturnedStored
        ELSE FetchedRoot]_vars

\* C26: get_api_version returns the version the API root advertises and
\* stores it in api_version; once a non-empty version has been stored,
\* later calls return it without fetching the root again; a root advertising
\* no version, or an empty one, leaves api_version without a version, so the
\* next call fetches again.
C26_NonEmptyStoredVersionIsKept ==
    [][GetApiVersionStep =>
        IF Truthy(aclient.api_version) THEN ReturnedStored
        ELSE /\ FetchedRoot
             /\ (acall'.root.ok /\ ~Truthy(acall'.root.version))
                    => ~Truthy(aclient'.api_version)]_vars

\* C26 witness: a second call returned the stored version without a
\* request.
C26_Witness ==
    /\ acall.kind = "get_api_version"
    /\ acall.n = 2
    /\ acall.requests = << >>
    /\ acall.version = <<"3",".","1">>
    /\ aclient.api_version = <<"3",".","1">>

----------------------------------------------------------------------------
(* Claims on the construction of the synchronous client *)

\* C27: constructing the synchronous client with a valid stored token runs
\* no authorization flow; with no valid token and auto_authenticate true the
\* flow runs once and has ended before any API request is sent, every
\* request carrying the newly stored token as bearer; with no valid token
\* and auto_authenticate false the construction raises and no API request
\* is sent.
C27_AuthenticateBeforeAnyRequest ==
    /\ sclient.pc = "authenticating" =>
            /\ ~sclient.valid /\ sclient.auto_authenticate
            /\ sclient.flows = 1
            /\ sclient.api_requests = << >>
    /\ sclient.pc = "raised" =>
            /\ ~sclient.valid
            /\ sclient.api_requests = << >>
            /\ sclient.auto_authenticate =>
                    sclient.flows = 1 /\ auth.pc = "raised"
            /\ ~sclient.auto_authenticate =>
                    sclient.flows = 0 /\ auth = NoAuthenticate
    /\ sclient.pc = "constructed" =>
            /\ \A i \in DOMAIN sclient.api_requests :
                    sclient.api_requests[i].bearer = sclient.bearer
            /\ IF sclient.valid
                    THEN /\ sclient.flows = 0
                         /\ auth = NoAuthenticate
                         /\ sclient.bearer = config.access_token
               ELSE /\ sclient.auto_authenticate
                    /\ sclient.flows = 1
                    /\ auth.pc = "returned"
                    /\ sclient.bearer = auth.response.token_data.access_token
                    /\ sclient.bearer = config_file.access_token

\* C27 witness: no valid token was stored, the client authenticated on its
\* own and then asked the API with the token it had just stored.
C27_Witness ==
    /\ sclient.pc = "constructed"
    /\ ~sclient.valid
    /\ sclient.flows = 1
    /\ sclient.bearer = <<"n","e","w">>
    /\ config_file.access_token = <<"n","e","w">>
    /\ Len(sclient.api_requests) = 1

----------------------------------------------------------------------------
(* Claims on a failed authorization *)

\* The step ends a call of authenticate() that was abandoned for want of a
\* code, or whose token request was answered with a status other than 200.
AuthenticateFailsStep ==
    /\ auth.pc \in {"prompt", "exchanging"}
    /\ auth'.pc = "raised"
    /\ \/ auth'.result = "no_code"
       \/ auth'.response.answered /\ auth'.response.status # 200

\* C28: when a token exchange fails on an answer other than 200, or
\* authenticate is abandoned because no code was entered, the stored
\* credential (access token, refresh token and expiry) is unchanged, in
\* memory and in the configuration file.
C28_FailureKeepsCredential ==
    [][AuthenticateFailsStep =>
        config' = config /\ config_file' = config_file]_vars

\* C28 witness: the token endpoint answered 400 and the call has raised; the
\* token stored before is still in memory and in the file.
C28_Witness ==
    /\ auth.pc = "raised"
    /\ auth.result = "exchange_failed"
    /\ auth.response.status = 400
    /\ config.access_token = <<"t","o","k">>
    /\ config_file = config

----------------------------------------------------------------------------
(* Claims on latest.json after a run *)

\* latest.json holds the state the last run fetched.
LatestHoldsRunState ==
    /\ snapshot_files[LATEST_SNAPSHOT].exists
    /\ snapshot_files[LATEST_SNAPSHOT] = run_out.current

\* latest.json, once written, stays; a completed run with --compare that
\* finds it reports no missing snapshot and, unless --save made it return
\* early, compares with it.
LaterCompareFindsLatest ==
    snapshot_files[LATEST_SNAPSHOT].exists =>
        /\ snapshot_files'[LATEST_SNAPSHOT].exists
        /\ RunCompleted /\ run_out'.flags.compare =>
                /\ ~run_out'.none_found
                /\ ~run_out'.flags.save =>
                        /\ run_out'.compared
                        /\ run_out'.previous = snapshot_files[LATEST_SNAPSHOT]

\* C29: after any run of main() that ends without error, whatever its flags
\* (--save, and --compare with no earlier snapshot, included), latest.json
\* holds the state fetched in that run, so that a later run with --compare
\* always finds a previous snapshot.
C29_LatestWrittenByEveryRun ==
    [](LastRunCompleted => LatestHoldsRunState)
        /\ [][LaterCompareFindsLatest]_vars

\* C29 witness: the first run, with --compare, found no previous snapshot
\* and left its state as latest.json.
C29_Witness ==
    /\ LastRunCompleted
    /\ run_out.run = 1
    /\ run_out.flags.compare /\ ~run_out.flags.save
    /\ run_out.none_found
    /\ snapshot_files[LATEST_SNAPSHOT] = run_out.current
    /\ run_out.current.exists

----------------------------------------------------------------------------
(* Claims on update_event and update_member *)

\* C25: with writes enabled, update_event and update_member called with
\* every optional field unset return 'No fields provided to update.' and
\* send no request; called with some field set they send one PATCH, whose
\* body holds exactly the fields given a value other than None.
C25_UpdateSendsGivenFields ==
    \A s \in Slots :
        (/\ inv[s].tool \in {"update_event", "update_member"}
         /\ ~check_readonly(readonly_env)) =>
            IF inv[s].fields = {}
                THEN /\ inv[s].pc = "returned"
                     /\ inv[s].result = "no_fields"
                     /\ inv[s].calls = << >>
                ELSE /\ Len(inv[s].calls) = 1
                     /\ inv[s].calls[1].op = inv[s].tool
                     /\ inv[s].calls[1].method = "PATCH"
                     /\ inv[s].calls[1].fields = inv[s].fields

====
